---------------------------- MODULE Spec2Model ----------------------------
(***************************************************************************)
(* Verification model of gdc-uploader.                                     *)
(*                                                                         *)
(* Each component is a state machine of its own, with its own              *)
(* specification; the variables of the other components stay at their      *)
(* initial values while one component runs.                                *)
(*                                                                         *)
(*   SpecRetry     core/retry.py       RetryManager.execute                *)
(*   SpecProgress  core/progress.py    ThreadSafeProgressTracker           *)
(*   SpecScope     core/progress.py    the progress_tracking scope         *)
(*   SpecRestart   core/progress.py    start() and stop() called repeatedly*)
(*   SpecBatch     api/async_client.py AsyncGDCAPIClient.batch_upload      *)
(*   SpecRequest   api/async_client.py start / close / _make_request       *)
(*   SpecAuth      api/auth.py         CachedTokenProvider.get_token       *)
(*   SpecSpot      spot_upload.py      SpotInstanceUploader                *)
(*   SpecParallel  example_implementations.py  upload_batch                *)
(*   SpecApi       parallel_api_upload.py      upload_file_api             *)
(*   SpecDirect    direct_upload.py            upload_file                 *)
(*   SpecPlugins   core/plugins.py             UploaderRegistry            *)
(*   SpecDiscovery core/file_operations.py     discover                    *)
(*   SpecDelay     core/retry.py       RetryConfig.calculate_delay         *)
(*   SpecSmart     core/retry.py       SmartRetry.adapt_config             *)
(*   SpecExit      exceptions_interface.py     ExitCodes.from_exception    *)
(*   SpecSplit     legacy/scripts/gdc_split_json.py  split_json_by_filename*)
(*   SpecBucket    api/client.py       TokenBucket / AsyncTokenBucket      *)
(*                                                                         *)
(* Times are integers: milliseconds in the retry manager and the async     *)
(* client, seconds in the spot uploader, hours in the token provider.      *)
(***************************************************************************)
EXTENDS Integers, Sequences, FiniteSets, TLC

None == "None"

\* FileSearchConfig.max_depth is None: no limit
NoDepth == -1

Min(a, b) == IF a <= b THEN a ELSE b
Max(a, b) == IF a >= b THEN a ELSE b

RECURSIVE Pow(_, _)
Pow(b, n) == IF n <= 0 THEN 1 ELSE b * Pow(b, n - 1)

(***************************************************************************)
(* Bounds of the model.                                                    *)
(***************************************************************************)
MaxAttempts == 3
MaxUpdates == 3
MaxScopeUpdates == 2
MaxFiles == 3
MaxParallel == 2
MaxRetries == 3
MaxCalls == 2
MaxClock == 3
MaxSpotRetries == 3
MaxApiRetries == 3
MaxDirectRetries == 3
MaxPluginTypes == 3
MaxDelayAttempt == 10
MaxSmartCalls == 4
MaxTens == 1
MaxSplitFiles == 2
MaxStarts == 2
MaxRestartUpdates == 1
MaxCapacity == 2
MaxWant == 3

VARIABLES
    \* ---- core/retry.py: RetryManager.execute ----
    config,          \* RetryConfig of the manager
    r_pc,            \* position in execute: "idle", "head", "call", "done"
    attempt,         \* loop variable of execute (1-based)
    delay,           \* local `delay` of the current iteration (ms)
    r_calls,         \* the outcome of every invocation of func, in order
    r_sleeps,        \* the argument of every time.sleep call, in order
    last_exception,  \* local `last_exception`
    r_outcome,       \* how execute ended: "none", "returned", "raised"
    r_raised,        \* the exception execute raised (NoException if it did not)
    statistics,      \* RetryStatistics counters
    r_callbacks,     \* (exception id, attempt) of every on_retry_callback call
    \* ---- core/progress.py: ThreadSafeProgressTracker, progress_tracking ----
    files,           \* the FileEntry list given to initialize_files (<<>> before)
    initialized,     \* initialize_files has run
    stats,           \* ProgressStats counters (_stats)
    file_stats,      \* _stats.file_stats: uuid -> per-file record
    update_queue,    \* _update_queue
    stop_event,      \* _stop_event is set
    threads,         \* every worker thread start() created: "check", "get", "dead"
    budget,          \* calls the caller still makes: [starts, updates]
    scenario,        \* per uuid, how far the report-then-complete scenario got
    reporter,        \* ProgressReporter of the scope: format and progress bar
    ctx_pc,          \* progress_tracking scope: "outside", "body", "finally", "exited"
    ctx_error,       \* the exception the scope propagates ("none" if none)
    summary,         \* the statistics the final summary printed (NoSummary if none)
    \* ---- api/async_client.py: one call of AsyncGDCAPIClient.batch_upload
    batch_request,   \* BatchUploadRequest: files and parallel_uploads
    b_pc,            \* "idle", "called", "gather", "collect", "returned", "raised"
    semaphore,       \* value of the asyncio.Semaphore
    task_pc,         \* per file: "created", "waiting", "running", "done"
    completed_tasks, \* per file: the (result, error) pair of its wrapper
    results,         \* the list `results`
    successful,      \* the counter `successful`
    failed,          \* the counter `failed`
    batch_response,  \* the BatchUploadResponse returned (NoBatchResponse if none)
    \* ---- api/async_client.py: the client's session and one _make_request call
    max_retries,     \* AsyncGDCAPIClient.max_retries
    session,         \* _session: None or "open"
    connector_closed,\* close() has closed the shared connector
    lifecycle,       \* "new", "starting", "started", "start_failed", "closed"
    q_pc,            \* the call: "idle", "limited", "sleeping", "done"
    q_caller,        \* who called _make_request: "user" or "start" (validate_token)
    retry_count,     \* the retry_count argument of the running _make_request
    q_kwargs,        \* the **kwargs of the running _make_request: headers, data
    q_attempts,      \* per _make_request entry of the call: what happened to it
    q_sleeps,        \* the asyncio.sleep delays of the call, in milliseconds
    q_outcome,       \* "none", "response", or the exception the call raised
    calls_left,      \* calls of start() and of request methods still to come
    \* ---- api/auth.py: one CachedTokenProvider
    validation_client, \* whether a validation client was given
    cached_token,    \* _cached_token
    validation_result, \* _validation_result: None, "valid" or "invalid"
    last_validation, \* _last_validation in hours (NoTime for None)
    now,             \* datetime.utcnow() in hours
    a_call,          \* what the last get_token call did and gave
    \* ---- spot_upload.py: one run of SpotInstanceUploader
    retries,         \* SpotInstanceUploader.retries
    has_uuid,        \* the metadata carries an id or uuid
    s_pc,            \* "run", "start", "check", "gdc", "sleep", "returned",
                     \* "raised", "killed", "exited"
    exit_code,       \* the exit status of the process (-1 while it runs)
    previous_state,  \* run()'s local `previous_state` (NoState for None)
    s_attempt,       \* the loop variable `attempt`
    state_file,      \* content of the state file (NoState when it does not exist)
    gdc_calls,       \* number of gdc-client runs started
    s_sleeps,        \* the time.sleep waits between attempts, in seconds
    s_result,        \* what upload_file returned ("none" before it returns)
    notice_at,       \* the attempt before which a termination notice was seen (0: none)
    \* ---- specs/interfaces/example_implementations.py: one upload_batch call
    g_files,         \* the `files` argument: the file entries, by number
    thread_count,    \* BaseUploader.thread_count
    use_resume,      \* ParallelGDCClientUploader.use_resume
    g_pc,            \* "idle", "called", "written", "ran", "returned", "raised"
    commands_file,   \* content of upload_commands.txt (NoFile when absent)
    joblog,          \* content of parallel.log (NoFile when absent)
    jobs,            \* the jobs GNU parallel ran: their files and exit codes
    g_results,       \* the list upload_batch returned
    g_error,         \* the exception upload_batch raised ("none" if none)
    \* ---- parallel_api_upload.py: one call of ParallelAPIUploader.upload_file_api
    u_retries,       \* ParallelAPIUploader.retries
    u_metadata,      \* what the metadata holds: "complete", "no uuid", "no project_id"
    u_pc,            \* "idle", "called", "loop", "try", "finally", "after", "returned"
    u_attempt,       \* the loop variable `attempt`
    u_calls,         \* how every subprocess.run call of the loop ended, in order
    u_sleeps,        \* the time.sleep waits of the loop, in seconds
    u_success,       \* the local `success`
    marker_file,     \* .upload-active-<uuid> exists
    progress_file,   \* curl-progress-<uuid>.txt exists
    stop_monitor,    \* the Event stop_monitor is set
    m_pc,            \* the monitor thread: "none", "test", "check", "ended"
    m_seen,          \* the monitor found the progress file at least once
    \* ---- direct_upload.py / example_implementations.py: one upload_file call
    d_strategy,      \* whose upload_file runs: "direct" or "standard"
    d_retries,       \* GDCDirectUploader.retries / BaseUploader.retry_count
    d_exists,        \* the file to upload exists
    d_pc,            \* "idle", "called", "loop", "returned", "raised"
    d_attempt,       \* the loop variable `attempt`
    d_calls,         \* how every gdc-client run ended, in order
    d_sleeps,        \* the time.sleep waits between the runs, in seconds
    d_result,        \* what upload_file returned ("none" before it returns)
    \* ---- core/plugins.py: the UploaderRegistry singleton
    priority,        \* per UploaderType: the priority its plugin class declares
    environment,     \* per UploaderType: what its validate_environment returns
    plugins,         \* _plugins: the registered types, in insertion order
    register_error,  \* the last register call raised ValueError
    best,            \* the last get_best_uploader call: its argument and result
    \* ---- core/file_operations.py: StandardFileDiscoveryStrategy.discover, one file
    tree,            \* per directory: what it holds under the wanted filename
    base_kind,       \* the base directory: "dir", "file" or "missing"
    search_config,   \* FileSearchConfig of the strategy
    f_pc,            \* "idle", "called", "subdirs", "searched", "done"
    file_path,       \* the local `file_path` (NoPath for None)
    walked,          \* _search_recursive was called
    f_result,        \* what discover did for the file: nothing, a yield, a raise
    \* ---- core/retry.py: RetryConfig.calculate_delay called on its own
    c_config,        \* the RetryConfig: its strategy and jitter switch
    c_attempt,       \* the argument `attempt` of the last call (0: no call yet)
    c_delay,         \* what the last call returned, in milliseconds
    \* ---- core/retry.py: SmartRetry
    smart_config,    \* SmartRetry.config: strategy, backoff_base, delays
    error_history,   \* SmartRetry.error_history, oldest first
    smart_calls,     \* calls of record_error / adapt_config still to come
    \* ---- specs/interfaces/exceptions_interface.py: ExitCodes.from_exception
    x_error_code,    \* error.error_code of the last call, character by character
    x_exit_code,     \* what the last call returned (NoExit: no call yet)
    \* ---- legacy/scripts/gdc_split_json.py: split_json_by_filename
    manifest,        \* data['files']: the file entries of the input, in order
    sp_pc,           \* "idle", "called", "loop", "returned"
    sp_index,        \* the loop variable `i`, counted from 1
    output_dir,      \* the output directory: file name -> the `files` array written
    created_files,   \* created_files: the paths written, in order
    \* ---- api/client.py TokenBucket, api/async_client.py AsyncTokenBucket
    bucket_kind,     \* "sync" (TokenBucket) or "async" (AsyncTokenBucket)
    capacity,        \* bucket.capacity, in tokens
    refill_rate,     \* bucket.refill_rate, in tokens per tick of 0.1 s
    tokens,          \* bucket.tokens
    elapsed,         \* ticks since bucket.last_refill (capped at ElapsedCap)
    lock_holder,     \* who holds bucket._lock (None: nobody)
    callers          \* per caller: the call it makes and how far it got

retryVars == <<config, r_pc, attempt, delay, r_calls, r_sleeps, last_exception,
               r_outcome, r_raised, statistics, r_callbacks>>

progressVars == <<files, initialized, stats, file_stats, update_queue, stop_event,
                  threads, budget, scenario, reporter, ctx_pc, ctx_error, summary>>

batchVars == <<batch_request, b_pc, semaphore, task_pc, completed_tasks, results,
               successful, failed, batch_response>>

requestVars == <<max_retries, session, connector_closed, lifecycle, q_pc, q_caller,
                 retry_count, q_kwargs, q_attempts, q_sleeps, q_outcome,
                 calls_left>>

authVars == <<validation_client, cached_token, validation_result, last_validation,
              now, a_call>>

spotVars == <<retries, has_uuid, s_pc, exit_code, previous_state, s_attempt,
              state_file, gdc_calls, s_sleeps, s_result, notice_at>>

parallelVars == <<g_files, thread_count, use_resume, g_pc, commands_file,
                    joblog, jobs, g_results, g_error>>

apiVars == <<u_retries, u_metadata, u_pc, u_attempt, u_calls, u_sleeps,
               u_success, marker_file, progress_file, stop_monitor, m_pc,
               m_seen>>

directVars == <<d_strategy, d_retries, d_exists, d_pc, d_attempt, d_calls,
                  d_sleeps, d_result>>

pluginsVars == <<priority, environment, plugins, register_error, best>>

discoveryVars == <<tree, base_kind, search_config, f_pc, file_path, walked,
                     f_result>>

delayVars == <<c_config, c_attempt, c_delay>>

smartVars == <<smart_config, error_history, smart_calls>>

exitVars == <<x_error_code, x_exit_code>>

splitVars == <<manifest, sp_pc, sp_index, output_dir, created_files>>

bucketVars == <<bucket_kind, capacity, refill_rate, tokens, elapsed,
                  lock_holder, callers>>

vars == <<retryVars, progressVars, batchVars, requestVars, authVars, spotVars,
           parallelVars, apiVars, directVars, pluginsVars, discoveryVars,
           delayVars, smartVars, exitVars, splitVars, bucketVars>>

\* What each component leaves unchanged: the variables of the others
notRetry == <<progressVars, batchVars, requestVars, authVars, spotVars,
               parallelVars, apiVars, directVars, pluginsVars, discoveryVars,
               delayVars, smartVars, exitVars, splitVars, bucketVars>>
notProgress == <<retryVars, batchVars, requestVars, authVars, spotVars,
                  parallelVars, apiVars, directVars, pluginsVars,
                  discoveryVars, delayVars, smartVars, exitVars, splitVars,
                  bucketVars>>
notBatch == <<retryVars, progressVars, requestVars, authVars, spotVars,
               parallelVars, apiVars, directVars, pluginsVars, discoveryVars,
               delayVars, smartVars, exitVars, splitVars, bucketVars>>
notRequest == <<retryVars, progressVars, batchVars, authVars, spotVars,
                 parallelVars, apiVars, directVars, pluginsVars,
                 discoveryVars, delayVars, smartVars, exitVars, splitVars,
                 bucketVars>>
notAuth == <<retryVars, progressVars, batchVars, requestVars, spotVars,
              parallelVars, apiVars, directVars, pluginsVars, discoveryVars,
              delayVars, smartVars, exitVars, splitVars, bucketVars>>
notSpot == <<retryVars, progressVars, batchVars, requestVars, authVars,
              parallelVars, apiVars, directVars, pluginsVars, discoveryVars,
              delayVars, smartVars, exitVars, splitVars, bucketVars>>
notParallel == <<retryVars, progressVars, batchVars, requestVars, authVars,
                  spotVars, apiVars, directVars, pluginsVars, discoveryVars,
                  delayVars, smartVars, exitVars, splitVars, bucketVars>>
notApi == <<retryVars, progressVars, batchVars, requestVars, authVars,
             spotVars, parallelVars, directVars, pluginsVars, discoveryVars,
             delayVars, smartVars, exitVars, splitVars, bucketVars>>
notDirect == <<retryVars, progressVars, batchVars, requestVars, authVars,
                spotVars, parallelVars, apiVars, pluginsVars, discoveryVars,
                delayVars, smartVars, exitVars, splitVars, bucketVars>>
notPlugins == <<retryVars, progressVars, batchVars, requestVars, authVars,
                 spotVars, parallelVars, apiVars, directVars, discoveryVars,
                 delayVars, smartVars, exitVars, splitVars, bucketVars>>
notDiscovery == <<retryVars, progressVars, batchVars, requestVars, authVars,
                   spotVars, parallelVars, apiVars, directVars, pluginsVars,
                   delayVars, smartVars, exitVars, splitVars, bucketVars>>
notDelay == <<retryVars, progressVars, batchVars, requestVars, authVars,
               spotVars, parallelVars, apiVars, directVars, pluginsVars,
               discoveryVars, smartVars, exitVars, splitVars, bucketVars>>
notSmart == <<retryVars, progressVars, batchVars, requestVars, authVars,
               spotVars, parallelVars, apiVars, directVars, pluginsVars,
               discoveryVars, delayVars, exitVars, splitVars, bucketVars>>
notExit == <<retryVars, progressVars, batchVars, requestVars, authVars,
              spotVars, parallelVars, apiVars, directVars, pluginsVars,
              discoveryVars, delayVars, smartVars, splitVars, bucketVars>>
notSplit == <<retryVars, progressVars, batchVars, requestVars, authVars,
               spotVars, parallelVars, apiVars, directVars, pluginsVars,
               discoveryVars, delayVars, smartVars, exitVars, bucketVars>>
notBucket == <<retryVars, progressVars, batchVars, requestVars, authVars,
                spotVars, parallelVars, apiVars, directVars, pluginsVars,
                discoveryVars, delayVars, smartVars, exitVars, splitVars>>


(***************************************************************************)
(* core/retry.py                                                           *)
(***************************************************************************)
\* RetryStrategy values
Strategies == {"immediate", "linear", "exponential", "fibonacci"}

\* RetryConfig defaults, delays in milliseconds
initial_delay == 1000
max_delay == 300000
jitter_percent == 10
backoff_base == 2
backoff_multiplier == 1
retry_http_codes == {408, 429, 500, 502, 503, 504}

\* Exception classes func may raise.  "RequestException" stands for
\* requests.exceptions.RequestException; status 0 is "no response attached".
ExcShapes ==
    { [cls |-> "ValueError", status |-> 0],
      [cls |-> "RuntimeError", status |-> 0],
      [cls |-> "RequestException", status |-> 0],
      [cls |-> "RequestException", status |-> 500],
      [cls |-> "RequestException", status |-> 404] }

\* Values of the same shape for "func returned" and "no exception"
OkCall == [cls |-> "ok", status |-> 0, id |-> 0]
NoException == [cls |-> "None", status |-> 0, id |-> 0]

\* The tuples of classes a RetryConfig is given for retry_on / dont_retry_on
RetryOnChoices == { {"Exception"}, {"ValueError", "RequestException"} }
DontRetryOnChoices == { {}, {"RuntimeError"} }

\* isinstance(exception, classes): every class derives from Exception
IsInstance(e, classes) == \E c \in classes : c = "Exception" \/ c = e.cls

\* RetryConfig.should_retry
should_retry(cfg, e) ==
    IF IsInstance(e, cfg.dont_retry_on) THEN FALSE
    ELSE IF ~IsInstance(e, cfg.retry_on) THEN FALSE
    ELSE IF e.cls = "RequestException" /\ e.status # 0
         THEN e.status \in retry_http_codes
    ELSE TRUE

\* RetryConfig._fibonacci_delay
RECURSIVE FibPair(_, _, _)
FibPair(a, b, steps) == IF steps <= 0 THEN b ELSE FibPair(b, a + b, steps - 1)
fibonacci_delay(n) ==
    IF n <= 1 THEN initial_delay ELSE FibPair(initial_delay, initial_delay, n - 1)

\* RetryConfig.calculate_delay before jitter: strategy, multiplier, cap
uncapped_delay(cfg, n) ==
    CASE cfg.strategy = "immediate" -> 0
      [] cfg.strategy = "linear" -> initial_delay * n * backoff_multiplier
      [] cfg.strategy = "exponential" ->
           initial_delay * Pow(backoff_base, n - 1) * backoff_multiplier
      [] cfg.strategy = "fibonacci" -> fibonacci_delay(n) * backoff_multiplier
base_delay(cfg, n) ==
    LET d == CASE cfg.strategy = "immediate" -> 0
               [] cfg.strategy = "linear" -> initial_delay * n
               [] cfg.strategy = "exponential" -> initial_delay * Pow(backoff_base, n - 1)
               [] cfg.strategy = "fibonacci" -> fibonacci_delay(n)
    IN Min(d * backoff_multiplier, max_delay)

\* RetryConfig.calculate_delay: the delays it may return.  random.uniform
\* over [-r, r] is represented by its two ends and its middle.
calculate_delay(cfg, n) ==
    LET d == base_delay(cfg, n)
        r == (d * jitter_percent) \div 100
    IN IF cfg.jitter /\ d > 0
       THEN { Max(0, d - r), d, Max(0, d + r) }
       ELSE { Max(0, d) }

\* RetryStatistics.record_attempt
record_failure_only(st, success, d) ==
    IF success THEN st
    ELSE [ st EXCEPT !.total_attempts = @ + 1, !.total_delay_time = @ + d,
                     !.failed_attempts = @ + 1 ]
record_attempt(st, success, d) ==
    [ total_attempts |-> st.total_attempts + 1,
      total_delay_time |-> st.total_delay_time + d,
      successful_attempts |-> st.successful_attempts + (IF success THEN 1 ELSE 0),
      failed_attempts |-> st.failed_attempts + (IF success THEN 0 ELSE 1) ]

\* The exception a bare `raise` inside the except block propagates: the
\* caught one, unchanged
ReraiseSynthetic(e) == [cls |-> "RetryExhausted", status |-> 0, id |-> 0]
Reraise(e) == e

RetryConfigs ==
    [ max_attempts : 0..MaxAttempts,
      strategy : Strategies,
      jitter : BOOLEAN,
      retry_on : RetryOnChoices,
      dont_retry_on : DontRetryOnChoices,
      on_retry_callback : BOOLEAN ]

\* RetryManager.__init__ followed by the call of execute
StartRetry ==
    /\ config \in RetryConfigs
    /\ r_pc = "head"
    /\ attempt = 1
    /\ delay = 0
    /\ r_calls = <<>>
    /\ r_sleeps = <<>>
    /\ last_exception = NoException
    /\ r_outcome = "none"
    /\ r_raised = NoException
    /\ statistics = [ total_attempts |-> 0, total_delay_time |-> 0,
                      successful_attempts |-> 0, failed_attempts |-> 0 ]
    /\ r_callbacks = <<>>

\* Top of one iteration of `for attempt in range(1, max_attempts + 1)`:
\* the delay is computed and slept for every attempt but the first
ExecuteDelay ==
    /\ r_pc = "head"
    /\ attempt <= config.max_attempts
    /\ \E d \in (IF attempt > 1 THEN calculate_delay(config, attempt - 1) ELSE {0}) :
          /\ delay' = d
          /\ r_sleeps' = IF d > 0 THEN Append(r_sleeps, d) ELSE r_sleeps
    /\ r_pc' = "call"
    /\ UNCHANGED <<config, attempt, r_calls, last_exception, r_outcome, r_raised,
                   statistics, r_callbacks, notRetry>>

\* The range is exhausted without a return or a raise (max_attempts < 1):
\* last_exception is None and execute returns None
ExecuteFallThrough ==
    /\ r_pc = "head"
    /\ attempt > config.max_attempts
    /\ r_pc' = "done"
    /\ r_outcome' = IF last_exception # NoException THEN "raised" ELSE "returned"
    /\ r_raised' = last_exception
    /\ UNCHANGED <<config, attempt, delay, r_calls, r_sleeps, last_exception,
                   statistics, r_callbacks, notRetry>>

\* func returns: the attempt is recorded and execute returns the result
ExecuteSuccess ==
    /\ r_pc = "call"
    /\ r_calls' = Append(r_calls, OkCall)
    /\ statistics' = record_attempt(statistics, TRUE, delay)
    /\ r_outcome' = "returned"
    /\ r_pc' = "done"
    /\ UNCHANGED <<config, attempt, delay, r_sleeps, last_exception, r_raised,
                   r_callbacks, notRetry>>

\* The except block gives up (records the attempt and re-raises) when the
\* exception is not retryable or no attempt remains
GivesUpWhenExhausted(cfg, e, att) == att >= cfg.max_attempts
GivesUp(cfg, e, att) == ~should_retry(cfg, e) \/ att >= cfg.max_attempts

\* `self.config.on_retry_callback(e, attempt)`: the exception just caught
\* and the number of the attempt that raised it
callback_with_next_attempt(e, att) == <<e.id, att + 1>>
callback_args(e, att) == <<e.id, att>>

\* func raises e: the except block of execute
ExecuteFailure ==
    /\ r_pc = "call"
    /\ \E shape \in ExcShapes :
        LET e == [cls |-> shape.cls, status |-> shape.status, id |-> Len(r_calls) + 1] IN
        /\ r_calls' = Append(r_calls, e)
        /\ last_exception' = e
        /\ statistics' = record_attempt(statistics, FALSE, delay)
        /\ IF GivesUp(config, e, attempt)
           THEN /\ r_outcome' = "raised"
                /\ r_raised' = Reraise(e)
                /\ r_pc' = "done"
                /\ UNCHANGED <<attempt, r_callbacks>>
           ELSE /\ r_callbacks' = IF config.on_retry_callback
                                  THEN Append(r_callbacks, callback_args(e, attempt))
                                  ELSE r_callbacks
                /\ attempt' = attempt + 1
                /\ r_pc' = "head"
                /\ UNCHANGED <<r_outcome, r_raised>>
    /\ UNCHANGED <<config, delay, r_sleeps, notRetry>>

NextRetry ==
    \/ ExecuteDelay
    \/ ExecuteFallThrough
    \/ ExecuteSuccess
    \/ ExecuteFailure


(***************************************************************************)
(* core/progress.py                                                        *)
(***************************************************************************)
Uuids == {"uuid1", "uuid2"}

\* The file lists a tracker is initialized with: no file, one file of 2
\* bytes, or that file and one of 4 bytes
FileLists ==
    { <<>>,
      <<[uuid |-> "uuid1", size |-> 2]>>,
      <<[uuid |-> "uuid1", size |-> 2], [uuid |-> "uuid2", size |-> 4]>> }

\* The updates the three producer methods put on the queue; total_bytes 0
\* stands for None (`if update.get("total_bytes")` treats both alike)
ProgressUpdates ==
    [ type : {"progress"}, file_uuid : Uuids, transferred_bytes : {1, 2},
      total_bytes : {0, 2, 4}, success : {FALSE} ]
StartedUpdates ==
    [ type : {"started"}, file_uuid : Uuids, transferred_bytes : {0},
      total_bytes : {0}, success : {FALSE} ]
CompletedUpdates ==
    [ type : {"completed"}, file_uuid : Uuids, transferred_bytes : {0},
      total_bytes : {0}, success : BOOLEAN ]

ZeroStats ==
    [ total_files |-> 0, completed_files |-> 0, failed_files |-> 0,
      in_progress_files |-> 0, total_bytes |-> 0, transferred_bytes |-> 0 ]
NoSummary == [ZeroStats EXCEPT !.total_files = -1]

RECURSIVE SumSizes(_)
SumSizes(fl) == IF fl = <<>> THEN 0 ELSE Head(fl).size + SumSizes(Tail(fl))

SizeIn(fl, u) ==
    LET S == { i \in 1..Len(fl) : fl[i].uuid = u }
    IN IF S = {} THEN 0 ELSE fl[CHOOSE i \in S : TRUE].size
DeclaredSize(u) == SizeIn(files, u)

\* The bytes a successful completion adds to the aggregate: the shortfall
\* between the size on the file's record and its last reported transferred
\* count
Shortfall(fs) ==
    IF fs.size > fs.transferred_bytes THEN fs.size - fs.transferred_bytes ELSE 0

\* ThreadSafeProgressTracker._process_update on the shared statistics
process_stats(st, fst, u) ==
    IF u.file_uuid \notin DOMAIN fst THEN st
    ELSE LET fs == fst[u.file_uuid] IN
      CASE u.type = "progress" ->
             [st EXCEPT !.transferred_bytes = @ + (u.transferred_bytes - fs.transferred_bytes)]
        [] u.type = "started" ->
             [st EXCEPT !.in_progress_files = @ + 1]
        [] u.type = "completed" ->
             [st EXCEPT
                !.in_progress_files = IF fs.status = "IN_PROGRESS" THEN @ - 1 ELSE @,
                !.completed_files = IF u.success THEN @ + 1 ELSE @,
                !.failed_files = IF u.success THEN @ ELSE @ + 1,
                !.transferred_bytes = IF u.success THEN @ + Shortfall(fs) ELSE @]

\* ThreadSafeProgressTracker._process_update on the per-file record
process_file(fst, u) ==
    IF u.file_uuid \notin DOMAIN fst THEN fst
    ELSE LET fs == fst[u.file_uuid] IN
      CASE u.type = "progress" ->
             [fst EXCEPT ![u.file_uuid] =
                [fs EXCEPT !.transferred_bytes = u.transferred_bytes,
                           !.size = IF u.total_bytes # 0 THEN u.total_bytes ELSE @]]
        [] u.type = "started" ->
             [fst EXCEPT ![u.file_uuid] = [fs EXCEPT !.status = "IN_PROGRESS"]]
        [] u.type = "completed" ->
             [fst EXCEPT ![u.file_uuid] =
                IF u.success
                THEN [fs EXCEPT !.status = "SUCCESS",
                                !.transferred_bytes = @ + Shortfall(fs)]
                ELSE [fs EXCEPT !.status = "FAILED"]]

\* Where the caller's sequence "partial progress reports, then
\* mark_file_completed(uuid, True)" stands for a file after one more update
\* is enqueued for it: "open" -> "completed", or "broken" once a call leaves
\* that sequence
scenario_after(sc, u) ==
    CASE u.type = "started" -> sc
      [] u.type = "progress" ->
           IF sc = "open" /\ u.transferred_bytes <= DeclaredSize(u.file_uuid)
           THEN "open" ELSE "broken"
      [] u.type = "completed" ->
           IF sc = "open" /\ u.success THEN "completed" ELSE "broken"

\* The reporters progress_tracking builds from its arguments
Reporters ==
    [ output_format : {"human", "json", "tsv"}, show_progress_bar : BOOLEAN,
      has_bar : {FALSE} ]

\* ThreadSafeProgressTracker.__init__; no reporter exists outside the scope
StartProgress ==
    /\ files = <<>>
    /\ initialized = FALSE
    /\ stats = ZeroStats
    /\ file_stats = << >>
    /\ update_queue = <<>>
    /\ stop_event = FALSE
    /\ threads = <<>>
    /\ budget \in [ starts : 0..MaxStarts,
                    updates : 0..Max(MaxUpdates, MaxScopeUpdates) ]
    /\ scenario = [u \in Uuids |-> "open"]
    /\ reporter = [ output_format |-> "human", show_progress_bar |-> FALSE,
                    has_bar |-> FALSE ]
    /\ ctx_pc = "outside"
    /\ ctx_error = "none"
    /\ summary = NoSummary

\* ThreadSafeProgressTracker.start
start_effect ==
    /\ stop_event' = FALSE
    /\ threads' = Append(threads, "check")

\* ThreadSafeProgressTracker.initialize_files(fl)
initialize_effect(fl) ==
    /\ files' = fl
    /\ initialized' = TRUE
    /\ stats' = [stats EXCEPT !.total_files = Len(fl), !.total_bytes = SumSizes(fl)]
    /\ file_stats' = [ u \in { fl[i].uuid : i \in 1..Len(fl) } |->
                         [ size |-> SizeIn(fl, u), status |-> "PENDING",
                           transferred_bytes |-> 0 ] ]

\* tracker.start() called directly
Start ==
    /\ ctx_pc = "outside"
    /\ budget.starts > 0
    /\ budget' = [budget EXCEPT !.starts = @ - 1]
    /\ start_effect
    /\ UNCHANGED <<files, initialized, stats, file_stats, update_queue,
                   scenario, reporter, ctx_pc, ctx_error, summary, notProgress>>

\* tracker.stop() called directly
Stop ==
    /\ ctx_pc = "outside"
    /\ stop_event' = TRUE
    /\ UNCHANGED <<files, initialized, stats, file_stats, update_queue, threads,
                   budget, scenario, reporter, ctx_pc, ctx_error, summary, notProgress>>

\* tracker.initialize_files(files) called directly
InitializeFiles ==
    /\ ctx_pc = "outside"
    /\ ~initialized
    /\ \E fl \in FileLists : initialize_effect(fl)
    /\ UNCHANGED <<update_queue, stop_event, threads, budget, scenario,
                   reporter, ctx_pc, ctx_error, summary, notProgress>>

\* update_file_progress / mark_file_started / mark_file_completed for a
\* tracked file: the caller only puts the update on the queue
Enqueue(u) ==
    /\ initialized
    /\ u.file_uuid \in DOMAIN file_stats
    /\ ctx_pc \in {"outside", "body"}
    /\ budget.updates > 0
    /\ budget' = [budget EXCEPT !.updates = @ - 1]
    /\ update_queue' = Append(update_queue, u)
    /\ scenario' = [scenario EXCEPT ![u.file_uuid] = scenario_after(@, u)]
    /\ UNCHANGED <<files, initialized, stats, file_stats, stop_event, threads,
                   reporter, ctx_pc, ctx_error, summary, notProgress>>

UpdateFileProgress == \E u \in ProgressUpdates : Enqueue(u)
MarkFileStarted == \E u \in StartedUpdates : Enqueue(u)
MarkFileCompleted == \E u \in CompletedUpdates : Enqueue(u)

\* _update_worker: the test of the loop, `while not self._stop_event.is_set()`
WorkerCheck(t) ==
    /\ threads[t] = "check"
    /\ threads' = [threads EXCEPT ![t] = IF stop_event THEN "dead" ELSE "get"]
    /\ UNCHANGED <<files, initialized, stats, file_stats, update_queue, stop_event,
                   budget, scenario, reporter, ctx_pc, ctx_error, summary, notProgress>>

\* Queue.get on a queue that is not empty: the item handed over and the
\* queue that is left
get_newest(q) == [ item |-> q[Len(q)], rest |-> SubSeq(q, 1, Len(q) - 1) ]
queue_get(q) == [ item |-> Head(q), rest |-> Tail(q) ]

\* _update_worker: get() hands over the oldest update and _process_update
\* applies it under the lock
WorkerProcess(t) ==
    /\ threads[t] = "get"
    /\ update_queue # <<>>
    /\ stats' = process_stats(stats, file_stats, queue_get(update_queue).item)
    /\ file_stats' = process_file(file_stats, queue_get(update_queue).item)
    /\ update_queue' = queue_get(update_queue).rest
    /\ threads' = [threads EXCEPT ![t] = "check"]
    /\ UNCHANGED <<files, initialized, stop_event, budget, scenario, reporter,
                   ctx_pc, ctx_error, summary, notProgress>>

\* _update_worker: get(timeout=0.1) raises Empty and the loop continues
WorkerEmpty(t) ==
    /\ threads[t] = "get"
    /\ update_queue = <<>>
    /\ threads' = [threads EXCEPT ![t] = "check"]
    /\ UNCHANGED <<files, initialized, stats, file_stats, update_queue, stop_event,
                   budget, scenario, reporter, ctx_pc, ctx_error, summary, notProgress>>

Worker == \E t \in 1..Len(threads) : WorkerCheck(t) \/ WorkerProcess(t) \/ WorkerEmpty(t)

\* progress_tracking, up to the yield: start, initialize_files, add_callback,
\* reporter.initialize (which builds the progress bar for the human format)
ScopeEnter ==
    /\ ctx_pc = "outside"
    /\ threads = <<>>
    /\ ~initialized
    /\ start_effect
    /\ \E fl \in FileLists : initialize_effect(fl)
    /\ \E r \in Reporters :
          reporter' = [r EXCEPT !.has_bar = r.show_progress_bar /\ r.output_format = "human"]
    /\ ctx_pc' = "body"
    /\ UNCHANGED <<update_queue, budget, scenario, ctx_error, summary, notProgress>>

\* The managed block ends, normally or by raising: the finally clause
\* begins with tracker.stop()
ScopeLeave ==
    /\ ctx_pc = "body"
    /\ \E e \in {"none", "BodyError"} : ctx_error' = e
    /\ stop_event' = TRUE
    /\ ctx_pc' = "finally"
    /\ UNCHANGED <<files, initialized, stats, file_stats, update_queue, threads,
                   budget, scenario, reporter, summary, notProgress>>

\* ConsoleProgressBar.finish -> _render: `width * current // total` divides
\* by the number of files
bar_finish_raises(rep, st) == rep.has_bar /\ st.total_files = 0

\* ProgressReporter.finish prints the summary block for the human format
\* only, after finishing the progress bar
finish_prints(rep, st) == rep.output_format = "human" /\ ~bar_finish_raises(rep, st)

\* The rest of the finally clause: get_stats and reporter.finish(final_stats)
ScopeFinish ==
    /\ ctx_pc = "finally"
    /\ summary' = IF finish_prints(reporter, stats) THEN stats ELSE NoSummary
    /\ ctx_error' = IF bar_finish_raises(reporter, stats) THEN "ZeroDivisionError"
                    ELSE ctx_error
    /\ ctx_pc' = "exited"
    /\ UNCHANGED <<files, initialized, stats, file_stats, update_queue, stop_event,
                   threads, budget, scenario, reporter, notProgress>>

\* The tracker used directly, as the unit tests do
NextProgress ==
    \/ Start
    \/ Stop
    \/ InitializeFiles
    \/ UpdateFileProgress
    \/ MarkFileStarted
    \/ MarkFileCompleted
    \/ Worker

\* The tracker used through `with progress_tracking(files, ...) as tracker`
NextScope ==
    \/ ScopeEnter
    \/ UpdateFileProgress
    \/ MarkFileStarted
    \/ MarkFileCompleted
    \/ Worker
    \/ ScopeLeave
    \/ ScopeFinish


(***************************************************************************)
(* api/async_client.py: AsyncGDCAPIClient.batch_upload                     *)
(***************************************************************************)
\* The requests: 1..MaxFiles existing files, each with data or empty on
\* disk, and parallel_uploads >= 1 (models.py: ge=1, le=10)
BatchRequests ==
    { [ files |-> [ i \in DOMAIN e |-> [ file_id |-> i, empty |-> e[i] ] ],
        parallel_uploads |-> k ] :
        e \in UNION { [ 1..n -> BOOLEAN ] : n \in 1..MaxFiles }, k \in 1..MaxParallel }

\* FileUploadResponse values; NoResponse is Python's None
NoResponse == [ file_id |-> 0, status |-> "None", uploaded_size |-> 0, errors |-> <<>> ]
NoError == "None"
UploadErrors == {"GDCServerError", "ClientError"}
ServerStatuses == {"completed", "unknown"}

\* What `await task` (upload_file) can produce for a file request: the
\* response of the last chunk, None when the file has no byte to send (the
\* while loop never runs, last_response stays None), or an exception
UploadOutcomes(fr) ==
    { [ result |-> NoResponse, error |-> e ] : e \in UploadErrors }
    \cup ( IF fr.empty
           THEN { [ result |-> NoResponse, error |-> NoError ] }
           ELSE { [ result |-> [ file_id |-> fr.file_id, status |-> st,
                                 uploaded_size |-> 1, errors |-> <<>> ],
                    error |-> NoError ] : st \in ServerStatuses } )

NoOutcome == [ result |-> NoResponse, error |-> "pending" ]
NoBatchResponse ==
    [ total_files |-> -1, successful |-> 0, failed |-> 0, results |-> <<>> ]

NumFiles == Len(batch_request.files)
InFlight == { i \in 1..NumFiles : task_pc[i] = "running" }

\* asyncio.Semaphore.locked
UnlimitedSemaphore(v) == FALSE
locked(v) == v <= 0

\* The response batch_upload synthesizes for a file whose upload raised
CompletedResponse(fid, e) ==
    [ file_id |-> fid, status |-> "completed", uploaded_size |-> 0, errors |-> <<e>> ]
FailedResponse(fid, e) ==
    [ file_id |-> fid, status |-> "failed", uploaded_size |-> 0, errors |-> <<e>> ]

\* The locals of batch_upload before its first statement
BatchLocals ==
    /\ batch_request \in BatchRequests
    /\ semaphore = 0
    /\ task_pc = [ i \in 1..NumFiles |-> "created" ]
    /\ completed_tasks = [ i \in 1..NumFiles |-> NoOutcome ]
    /\ results = <<>>
    /\ successful = 0
    /\ failed = 0
    /\ batch_response = NoBatchResponse

StartBatch == BatchLocals /\ b_pc = "called"

\* batch_upload up to the gather: the upload_file coroutine objects are
\* created (none runs yet), the semaphore is built, the wrappers are handed
\* to asyncio.gather
BatchGather ==
    /\ b_pc = "called"
    /\ semaphore' = batch_request.parallel_uploads
    /\ task_pc' = [ i \in 1..NumFiles |-> "waiting" ]
    /\ b_pc' = "gather"
    /\ UNCHANGED <<batch_request, completed_tasks, results, successful, failed,
                   batch_response, notBatch>>

\* upload_with_semaphore: `async with semaphore` acquires, `await task`
\* starts the upload
WrapperAcquire(i) ==
    /\ b_pc = "gather"
    /\ task_pc[i] = "waiting"
    /\ ~locked(semaphore)
    /\ semaphore' = semaphore - 1
    /\ task_pc' = [task_pc EXCEPT ![i] = "running"]
    /\ UNCHANGED <<batch_request, b_pc, completed_tasks, results, successful,
                   failed, batch_response, notBatch>>

\* upload_with_semaphore: the upload ends; a result gives (result, None), an
\* Exception is caught and gives (None, e); the semaphore is released
WrapperFinish(i) ==
    /\ b_pc = "gather"
    /\ task_pc[i] = "running"
    /\ \E o \in UploadOutcomes(batch_request.files[i]) :
          completed_tasks' = [completed_tasks EXCEPT ![i] = o]
    /\ semaphore' = semaphore + 1
    /\ task_pc' = [task_pc EXCEPT ![i] = "done"]
    /\ UNCHANGED <<batch_request, b_pc, results, successful, failed,
                   batch_response, notBatch>>

Wrapper == \E i \in 1..NumFiles : WrapperAcquire(i) \/ WrapperFinish(i)

\* asyncio.gather returns once every wrapper has returned
GatherReturns ==
    /\ b_pc = "gather"
    /\ \A i \in 1..NumFiles : task_pc[i] = "done"
    /\ b_pc' = "collect"
    /\ UNCHANGED <<batch_request, semaphore, task_pc, completed_tasks, results,
                   successful, failed, batch_response, notBatch>>

\* One round of `for idx, (result, error) in enumerate(completed_tasks)`
Collect ==
    /\ b_pc = "collect"
    /\ Len(results) < NumFiles
    /\ LET idx == Len(results) + 1
           o == completed_tasks[idx]
       IN IF o.error # NoError
          THEN /\ failed' = failed + 1
               /\ results' = Append(results,
                                FailedResponse(batch_request.files[idx].file_id, o.error))
               /\ UNCHANGED successful
          ELSE /\ successful' = successful + 1
               /\ results' = Append(results, o.result)
               /\ UNCHANGED failed
    /\ UNCHANGED <<batch_request, b_pc, semaphore, task_pc, completed_tasks,
                   batch_response, notBatch>>

\* BatchUploadResponse(...): pydantic rejects a None among `results`
\* (List[FileUploadResponse]) with a ValidationError, which batch_upload
\* lets propagate
BatchReturn ==
    /\ b_pc = "collect"
    /\ Len(results) = NumFiles
    /\ IF \E i \in 1..Len(results) : results[i] = NoResponse
       THEN /\ b_pc' = "raised"
            /\ UNCHANGED batch_response
       ELSE /\ b_pc' = "returned"
            /\ batch_response' = [ total_files |-> NumFiles, successful |-> successful,
                                   failed |-> failed, results |-> results ]
    /\ UNCHANGED <<batch_request, semaphore, task_pc, completed_tasks, results,
                   successful, failed, notBatch>>

NextBatch ==
    \/ BatchGather
    \/ Wrapper
    \/ GatherReturns
    \/ Collect
    \/ BatchReturn


(***************************************************************************)
(* api/async_client.py: start, close, _make_request                        *)
(***************************************************************************)
\* What the server answers to one dispatched request: a status code, or 0
\* when no answer arrives in time (asyncio.TimeoutError)
Replies == {0, 200, 401, 404, 429, 500, 503}

\* `(2 ** retry_count) * 0.5` seconds, in milliseconds
backoff(rc) == Pow(2, rc) * 500

\* `if retry_count < self.max_retries`
RetriesOnceMore(rc) == rc <= max_retries
MayRetry(rc) == rc < max_retries

\* `if not self._session`
NeverUnstarted(sess) == FALSE
not_started(sess) == sess = None

\* One entry of _make_request: the lifecycle state it was entered in, the
\* one it reached the send in ("none" if it did not), whether the request
\* was dispatched and the status it got
Entered(lc) ==
    [ entered |-> lc, during |-> "none", dispatched |-> FALSE, status |-> 0,
      headers |-> {}, data |-> None ]

\* How a _make_request call that ends with outcome `o` leaves start()
lifecycle_after(o) ==
    IF q_caller = "start" /\ lifecycle = "starting"
    THEN IF o = "response" THEN "started" ELSE "start_failed"
    ELSE lifecycle

\* The keyword arguments the request methods pass to _make_request:
\* nothing (validate_token, get_file_status), or the headers and the chunk
\* of upload_file_chunk, with Content-Range when there is an offset or a
\* total size
NoKwargs == [ headers |-> {}, data |-> None ]
CallerKwargs ==
    { NoKwargs,
      [ headers |-> {"Content-Type", "Content-Length"}, data |-> "chunk" ],
      [ headers |-> {"Content-Type", "Content-Length", "Content-Range"},
        data |-> "chunk" ] }

\* `headers = kwargs.pop('headers', {})`: the headers of this request, and
\* the kwargs that are left for a later `**kwargs`
pop_headers(kw) ==
    [ headers |-> kw.headers, kwargs |-> [kw EXCEPT !.headers = {}] ]

\* AsyncGDCAPIClient.__init__
StartRequest ==
    /\ max_retries \in 0..MaxRetries
    /\ session = None
    /\ connector_closed = FALSE
    /\ lifecycle = "new"
    /\ q_pc = "idle"
    /\ q_caller = "user"
    /\ retry_count = 0
    /\ q_kwargs = NoKwargs
    /\ q_attempts = <<>>
    /\ q_sleeps = <<>>
    /\ q_outcome = "none"
    /\ calls_left \in {0, MaxCalls}

\* start() on a client without session: the session is created, then
\* _validate_token -> validate_token enters _make_request
ClientStart ==
    /\ calls_left > 0
    /\ q_pc \in {"idle", "done"}
    /\ session = None
    /\ session' = "open"
    /\ lifecycle' = "starting"
    /\ calls_left' = calls_left - 1
    /\ q_caller' = "start"
    /\ retry_count' = 0
    /\ q_kwargs' = NoKwargs
    /\ q_attempts' = <<Entered("starting")>>
    /\ q_sleeps' = <<>>
    /\ q_outcome' = "none"
    /\ q_pc' = "limited"
    /\ UNCHANGED <<max_retries, connector_closed, notRequest>>

\* close(): the session is closed and forgotten, the connector is closed
ClientClose ==
    /\ session # None \/ ~connector_closed
    /\ session' = None
    /\ connector_closed' = TRUE
    /\ lifecycle' = "closed"
    /\ UNCHANGED <<max_retries, q_pc, q_caller, retry_count, q_kwargs, q_attempts,
                   q_sleeps, q_outcome, calls_left, notRequest>>

\* A request method calls _make_request(method, url): the session test at
\* its entry, then the wait for the rate limiter
RequestEnter ==
    /\ calls_left > 0
    /\ q_pc \in {"idle", "done"}
    /\ lifecycle # "starting"
    /\ calls_left' = calls_left - 1
    /\ q_caller' = "user"
    /\ retry_count' = 0
    /\ q_kwargs' \in CallerKwargs
    /\ q_attempts' = <<Entered(lifecycle)>>
    /\ q_sleeps' = <<>>
    /\ IF not_started(session)
       THEN q_pc' = "done" /\ q_outcome' = "RuntimeError"
       ELSE q_pc' = "limited" /\ q_outcome' = "none"
    /\ UNCHANGED <<max_retries, session, connector_closed, lifecycle, notRequest>>

\* The exception _make_request raises for a reply, "response" when it
\* returns it, "retry" when it sleeps and calls itself again
reply_outcome(r, rc) ==
    CASE r = 0 -> "GDCTimeoutError"
      [] r = 401 -> "GDCAuthenticationError"
      [] r = 429 -> "GDCRateLimitError"
      [] r >= 500 -> IF MayRetry(rc) THEN "retry" ELSE "GDCServerError"
      [] r >= 400 -> "GDCValidationError"
      [] OTHER -> "response"

\* _make_request after the rate limiter: `self._session.request(...)` and
\* the handling of the response
RequestSend ==
    /\ q_pc = "limited"
    /\ \E r \in Replies :
        LET n == Len(q_attempts)
            sent == session # None /\ ~connector_closed
            o == IF session = None THEN "AttributeError"
                 ELSE IF connector_closed THEN "GDCConnectionError"
                 ELSE reply_outcome(r, retry_count)
        IN /\ q_attempts' = [q_attempts EXCEPT ![n] =
                               [@ EXCEPT !.during = lifecycle, !.dispatched = sent,
                                         !.status = IF sent THEN r ELSE 0,
                                         !.headers = pop_headers(q_kwargs).headers
                                                       \cup {"X-Auth-Token"},
                                         !.data = q_kwargs.data]]
           /\ q_kwargs' = pop_headers(q_kwargs).kwargs
           /\ IF o = "retry"
              THEN /\ q_sleeps' = Append(q_sleeps, backoff(retry_count))
                   /\ q_pc' = "sleeping"
                   /\ UNCHANGED <<q_outcome, lifecycle>>
              ELSE /\ q_outcome' = o
                   /\ q_pc' = "done"
                   /\ lifecycle' = lifecycle_after(o)
                   /\ UNCHANGED q_sleeps
    /\ UNCHANGED <<max_retries, session, connector_closed, q_caller, retry_count,
                   calls_left, notRequest>>

\* asyncio.sleep is over: _make_request(method, url, retry_count + 1) is
\* entered and tests the session again
RequestRetry ==
    /\ q_pc = "sleeping"
    /\ retry_count' = retry_count + 1
    /\ q_attempts' = Append(q_attempts, Entered(lifecycle))
    /\ IF not_started(session)
       THEN /\ q_pc' = "done"
            /\ q_outcome' = "RuntimeError"
            /\ lifecycle' = lifecycle_after("RuntimeError")
       ELSE /\ q_pc' = "limited"
            /\ UNCHANGED <<q_outcome, lifecycle>>
    /\ UNCHANGED <<max_retries, session, connector_closed, q_caller, q_kwargs,
                   q_sleeps, calls_left, notRequest>>

NextRequest ==
    \/ ClientStart
    \/ ClientClose
    \/ RequestEnter
    \/ RequestSend
    \/ RequestRetry


(***************************************************************************)
(* api/auth.py: CachedTokenProvider                                        *)
(***************************************************************************)
NoTime == -1
validation_interval == 1

\* validation_client.validate_token(): a result with is_valid true or
\* false, or an exception
Verdicts == {"valid", "invalid", "raises"}

\* base_provider.refresh_token(): a new token, None, or an exception
Refreshes == {"t2", None, "raises"}

\* `if new_token:`
AdoptsAnything(new_token) == TRUE
adopts(new_token) == new_token \notin {None, "raises"}

\* CachedTokenProvider._should_validate
should_validate ==
    \/ last_validation = NoTime
    \/ now - last_validation > validation_interval

NoCall ==
    [ first |-> "none", refresh |-> "none", second |-> "none",
      validations |-> 0, refreshes |-> 0, result |-> "none" ]

\* CachedTokenProvider.__init__
StartAuth ==
    /\ validation_client \in BOOLEAN
    /\ cached_token = None
    /\ validation_result = None
    /\ last_validation = NoTime
    /\ now = 0
    /\ a_call = NoCall

\* Time passes
Tick ==
    /\ now < MaxClock
    /\ now' = now + 1
    /\ UNCHANGED <<validation_client, cached_token, validation_result,
                   last_validation, a_call, notAuth>>

\* get_token when no validation is due: the cached token is returned
GetTokenCached ==
    /\ ~(validation_client /\ should_validate)
    /\ cached_token' = IF cached_token = None THEN "t1" ELSE cached_token
    /\ a_call' = [NoCall EXCEPT !.result = cached_token']
    /\ UNCHANGED <<validation_client, validation_result, last_validation, now, notAuth>>

\* get_token when a validation is due: _validate_token with the verdicts
\* v1, v2 of the validation client and the answer rf of the base provider
GetTokenValidating ==
    /\ validation_client /\ should_validate
    /\ \E v1 \in Verdicts, rf \in Refreshes, v2 \in Verdicts :
        LET tok == IF cached_token = None THEN "t1" ELSE cached_token
            refreshed == v1 = "invalid"
            revalidated == refreshed /\ adopts(rf)
            final == IF revalidated /\ v2 # "raises" THEN v2
                     ELSE IF v1 = "raises" THEN validation_result ELSE v1
            ok == v1 = "valid" \/ (revalidated /\ v2 = "valid")
        IN /\ cached_token' = IF revalidated THEN rf ELSE tok
           /\ validation_result' = final
           /\ last_validation' = IF v1 = "raises" THEN last_validation ELSE now
           /\ a_call' = [ first |-> v1,
                          refresh |-> IF refreshed THEN rf ELSE "none",
                          second |-> IF revalidated THEN v2 ELSE "none",
                          validations |-> IF revalidated THEN 2 ELSE 1,
                          refreshes |-> IF refreshed THEN 1 ELSE 0,
                          result |-> IF ok THEN cached_token'
                                     ELSE "GDCAuthenticationError" ]
    /\ UNCHANGED <<validation_client, now, notAuth>>

\* CachedTokenProvider.refresh_token called by the owner
ProviderRefresh ==
    /\ cached_token # None
    /\ \E rf \in Refreshes \ {"raises"} :
        IF adopts(rf)
        THEN /\ cached_token' = rf
             /\ validation_result' = None
             /\ last_validation' = NoTime
        ELSE UNCHANGED <<cached_token, validation_result, last_validation>>
    /\ UNCHANGED <<validation_client, now, a_call, notAuth>>

NextAuth ==
    \/ Tick
    \/ GetTokenCached
    \/ GetTokenValidating
    \/ ProviderRefresh


(***************************************************************************)
(* spot_upload.py: SpotInstanceUploader.upload_file                        *)
(***************************************************************************)
\* The state file: the JSON object _save_state wrote last. An absent key
\* is None (0 for the numbers `attempt` and `signal`)
NoState == [ file |-> None, uuid |-> None, status |-> "absent", attempt |-> 0,
             interrupted |-> FALSE, signal |-> 0 ]
Checkpoint(status, att) ==
    [ file |-> "file_path", uuid |-> "uuid", status |-> status, attempt |-> att,
      interrupted |-> FALSE, signal |-> 0 ]

\* A checkpoint an earlier invocation wrote for another target file; the
\* state file defaults to upload_state.json in the working directory
OtherTargetCheckpoint(status) ==
    [ file |-> "other_path", uuid |-> "other_uuid", status |-> status,
      attempt |-> 0, interrupted |-> FALSE, signal |-> 0 ]

\* What the signal handler saves: {"interrupted": True, "signal": signum}
SignalCheckpoint(signum) ==
    [ file |-> None, uuid |-> None, status |-> None, attempt |-> 0,
      interrupted |-> TRUE, signal |-> signum ]
Signals == {2, 15}

\* The checkpoint written when a termination notice is seen before `att`
stale_checkpoint(att) == Checkpoint("uploading", 0)
interrupted_checkpoint(att) == Checkpoint("interrupted", att)

\* The state file after a successful upload: the "completed" checkpoint
\* is saved and the file is unlinked at once
left_behind == Checkpoint("completed", 0)
cleaned_up == NoState

\* `wait_time = min(60 * attempt, 300)`
wait_time(att) == Min(60 * att, 300)

\* What an earlier run can have left in the state file
PriorStates ==
    { NoState, Checkpoint("uploading", 0), Checkpoint("interrupted", 1),
      Checkpoint("completed", 0), Checkpoint("failed", 0), SignalCheckpoint(15),
      OtherTargetCheckpoint("completed"), OtherTargetCheckpoint("interrupted") }

\* SpotInstanceUploader.__init__
StartSpot ==
    /\ retries \in 0..MaxSpotRetries
    /\ has_uuid = FALSE
    /\ s_pc \in {"run", "idle"}
    /\ exit_code = -1
    /\ previous_state = NoState
    /\ s_attempt = 0
    /\ state_file \in PriorStates
    /\ gdc_calls = 0
    /\ s_sleeps = <<>>
    /\ s_result = "none"
    /\ notice_at = 0

\* run() up to the call of upload_file: a "completed" checkpoint ends the
\* run at once; the target must be in the manifest and on disk
RunBegin ==
    /\ s_pc = "run"
    /\ previous_state' = state_file
    /\ IF state_file.status = "completed"
       THEN s_pc' = "exited" /\ exit_code' = 0 /\ UNCHANGED has_uuid
       ELSE \E metadata \in {"none", "with uuid", "without uuid"}, exists \in BOOLEAN :
              IF metadata = "none" \/ ~exists
              THEN s_pc' = "exited" /\ exit_code' = 1 /\ UNCHANGED has_uuid
              ELSE /\ s_pc' = "start"
                   /\ has_uuid' = (metadata = "with uuid")
                   /\ UNCHANGED exit_code
    /\ UNCHANGED <<retries, s_attempt, state_file, gdc_calls, s_sleeps, s_result,
                   notice_at, notSpot>>

\* run() after upload_file: sys.exit(0) on success, sys.exit(2) otherwise
RunEnd ==
    /\ s_pc = "returned"
    /\ s_pc' = "exited"
    /\ exit_code' = IF s_result = "True" THEN 0 ELSE 2
    /\ UNCHANGED <<retries, previous_state, has_uuid, s_attempt, state_file, gdc_calls, s_sleeps,
                   s_result, notice_at, notSpot>>

\* upload_file up to the loop: the uuid test and the "uploading" checkpoint
UploadBegin ==
    /\ s_pc = "start"
    /\ IF ~has_uuid
       THEN /\ s_pc' = "returned"
            /\ s_result' = "False"
            /\ UNCHANGED <<state_file, s_attempt>>
       ELSE /\ state_file' = Checkpoint("uploading", 0)
            /\ IF retries >= 1
               THEN s_pc' = "check" /\ s_attempt' = 1 /\ UNCHANGED s_result
               ELSE s_pc' = "returned" /\ s_result' = "None" /\ UNCHANGED s_attempt
    /\ UNCHANGED <<retries, previous_state, has_uuid, exit_code, gdc_calls, s_sleeps,
                   notice_at, notSpot>>

\* The head of an attempt: _check_spot_termination; on a notice the
\* "interrupted" checkpoint is saved and upload_file returns False,
\* otherwise gdc-client is started
CheckTermination ==
    /\ s_pc = "check"
    /\ \E notice \in BOOLEAN :
        IF notice
        THEN /\ state_file' = interrupted_checkpoint(s_attempt)
             /\ notice_at' = s_attempt
             /\ s_result' = "False"
             /\ s_pc' = "returned"
             /\ UNCHANGED gdc_calls
        ELSE /\ gdc_calls' = gdc_calls + 1
             /\ s_pc' = "gdc"
             /\ UNCHANGED <<state_file, notice_at, s_result>>
    /\ UNCHANGED <<retries, previous_state, has_uuid, exit_code, s_attempt, s_sleeps, notSpot>>

\* subprocess.run(cmd, check=True) ends: success (the "completed"
\* checkpoint is saved and the state file removed), CalledProcessError
\* (wait and retry, or the "failed" checkpoint), or another exception,
\* which upload_file does not catch
GdcEnds ==
    /\ s_pc = "gdc"
    /\ \E end \in {"ok", "CalledProcessError", "OSError"} :
        CASE end = "ok" ->
               /\ state_file' = cleaned_up
               /\ s_result' = "True"
               /\ s_pc' = "returned"
               /\ UNCHANGED s_sleeps
          [] end = "CalledProcessError" ->
               IF s_attempt < retries
               THEN /\ s_sleeps' = Append(s_sleeps, wait_time(s_attempt))
                    /\ s_pc' = "sleep"
                    /\ UNCHANGED <<state_file, s_result>>
               ELSE /\ state_file' = Checkpoint("failed", 0)
                    /\ s_result' = "False"
                    /\ s_pc' = "returned"
                    /\ UNCHANGED s_sleeps
          [] end = "OSError" ->
               /\ s_pc' = "raised"
               /\ UNCHANGED <<state_file, s_result, s_sleeps>>
    /\ UNCHANGED <<retries, previous_state, has_uuid, exit_code, s_attempt, gdc_calls, notice_at,
                   notSpot>>

\* time.sleep is over: the next round of the loop
NextAttempt ==
    /\ s_pc = "sleep"
    /\ s_attempt' = s_attempt + 1
    /\ s_pc' = "check"
    /\ UNCHANGED <<retries, previous_state, has_uuid, exit_code, state_file, gdc_calls, s_sleeps,
                   s_result, notice_at, notSpot>>

\* SIGTERM or SIGINT while upload_file waits for curl, gdc-client or the
\* sleep: the handler overwrites the state file and exits the process
SignalHandler ==
    /\ s_pc \in {"check", "gdc", "sleep"}
    /\ \E signum \in Signals : state_file' = SignalCheckpoint(signum)
    /\ s_pc' = "killed"
    /\ exit_code' = 0
    /\ UNCHANGED <<retries, previous_state, has_uuid, s_attempt, gdc_calls, s_sleeps, s_result,
                   notice_at, notSpot>>

NextSpot ==
    \/ RunBegin
    \/ RunEnd
    \/ UploadBegin
    \/ CheckTermination
    \/ GdcEnds
    \/ NextAttempt
    \/ SignalHandler


(***************************************************************************)
(* specs/interfaces/example_implementations.py:                            *)
(* ParallelGDCClientUploader.upload_batch                                  *)
(***************************************************************************)
\* A file of the working directory: whether it exists, and its text
NoFile == [ exists |-> FALSE, text |-> <<>> ]
File(text) == [ exists |-> TRUE, text |-> text ]

\* The text of a file is a sequence of tokens: the command of a file, or
\* the characters written after it
Command(f) == [ kind |-> "cmd", file |-> f ]
LineFeed == [ kind |-> "LF", file |-> 0 ]
\* `f.write(f"{cmd}\\n")`: a backslash and the letter n, no line feed
BackslashN == [ kind |-> "backslash-n", file |-> 0 ]
written_after_command == BackslashN

RECURSIVE commands_text(_)
commands_text(fs) ==
    IF fs = <<>> THEN <<>>
    ELSE <<Command(Head(fs)), written_after_command>> \o commands_text(Tail(fs))

\* The input lines GNU parallel reads with -a: the text cut at its line
\* feeds; a last line without a line feed counts
RECURSIVE input_lines(_, _)
input_lines(text, line) ==
    IF text = <<>> THEN (IF line = <<>> THEN <<>> ELSE <<line>>)
    ELSE IF Head(text) = LineFeed
         THEN <<line>> \o input_lines(Tail(text), <<>>)
         ELSE input_lines(Tail(text), Append(line, Head(text)))

\* The files whose commands make up one input line
line_files(line) ==
    LET idx == { i \in 1..Len(line) : line[i].kind = "cmd" }
    IN  { line[i].file : i \in idx }

\* A joblog is the header line followed by one line per finished job, in
\* the order the jobs finished. The columns of a job line are separated by
\* tab characters: Seq Host Starttime JobRuntime Send Receive Exitval
\* Signal Command (only Seq and Exitval are kept here)
JoblogHeader == [ seq |-> 0, exitval |-> 0 ]
JoblogLine(seq, exitval) == [ seq |-> seq, exitval |-> exitval ]
Columns(line) == <<line.seq, 0, 0, 0, 0, 0, line.exitval, 0, 0>>

\* `line.strip().split('\\t')` splits at a backslash followed by the
\* letter t; a job line holds tabs and no such pair, so it stays whole
split(line, sep) == IF sep = "TAB" THEN Columns(line) ELSE <<line.seq>>

\* The results loop over `lines = f.readlines()[1:]`: i is the 0-based
\* index of the line; the first failing line ends the loop with its error
RECURSIVE parse_joblog(_, _, _, _)
parse_joblog(lines, i, fs, acc) ==
    IF lines = <<>> THEN [ error |-> "none", results |-> acc ]
    ELSE LET parts == split(Head(lines), "backslash-t")
         IN  IF Len(parts) < 7
             THEN [ error |-> "IndexError", results |-> acc ]
             ELSE IF i + 1 > Len(fs)
             THEN [ error |-> "IndexError", results |-> acc ]
             ELSE parse_joblog(Tail(lines), i + 1, fs,
                    Append(acc, [ file |-> fs[i + 1],
                                  status |-> IF parts[7] = 0 THEN "SUCCESS"
                                             ELSE "FAILED",
                                  attempts |-> 1 ]))

\* The orders in which n jobs can finish
Orders(n) == { o \in [1..n -> 1..n] : \A a, b \in 1..n : a # b => o[a] # o[b] }

ExitCodes == {0, 1}

FileLists1 == { <<>>, <<1>>, <<1, 2>>, <<2, 1, 3>> }

\* The uploader and the arguments of the call
StartParallel ==
    /\ g_files \in FileLists1
    /\ thread_count \in 1..3
    /\ use_resume \in BOOLEAN
    /\ commands_file = NoFile
    /\ joblog = NoFile
    /\ jobs = <<>>
    /\ g_results = <<>>
    /\ g_error = "none"

\* thread_count == 1: `return [self.upload_file(f) for f in files]`
BatchSequential ==
    /\ g_pc = "called"
    /\ thread_count = 1
    /\ \E st \in [1..Len(g_files) -> {"SUCCESS", "FAILED"}] :
         g_results' = [ i \in 1..Len(g_files) |->
                          [ file |-> g_files[i], status |-> st[i], attempts |-> 1 ] ]
    /\ g_pc' = "returned"
    /\ UNCHANGED <<g_files, thread_count, use_resume, commands_file, joblog, jobs,
                   g_error, notParallel>>

\* The commands file is written
WriteCommands ==
    /\ g_pc = "called"
    /\ thread_count # 1
    /\ commands_file' = File(commands_text(g_files))
    /\ g_pc' = "written"
    /\ UNCHANGED <<g_files, thread_count, use_resume, joblog, jobs, g_results,
                   g_error, notParallel>>

\* subprocess.run(parallel_cmd): the program is missing (subprocess.run
\* raises), or it stops before it opens the joblog, or it runs one job per
\* input line and logs each as it finishes. Its exit status is not looked at
RunParallel ==
    /\ g_pc = "written"
    /\ \E end \in {"FileNotFoundError", "no joblog", "ran"} :
        CASE end = "FileNotFoundError" ->
               /\ g_pc' = "raised"
               /\ g_error' = "FileNotFoundError"
               /\ UNCHANGED <<joblog, jobs>>
          [] end = "no joblog" ->
               /\ g_pc' = "ran"
               /\ UNCHANGED <<joblog, jobs, g_error>>
          [] end = "ran" ->
               LET lines == input_lines(commands_file.text, <<>>)
                   n == Len(lines)
               IN  \E codes \in [1..n -> ExitCodes], order \in Orders(n) :
                     /\ jobs' = [ j \in 1..n |->
                                    [ files |-> line_files(lines[j]),
                                      exitval |-> codes[j] ] ]
                     /\ joblog' = File(<<JoblogHeader>> \o
                                    [ k \in 1..n |->
                                        JoblogLine(order[k], codes[order[k]]) ])
                     /\ g_pc' = "ran"
                     /\ UNCHANGED g_error
    /\ UNCHANGED <<g_files, thread_count, use_resume, commands_file, g_results,
                   notParallel>>

\* The joblog is read and parsed, both files are removed and the results
\* returned; an exception on the way leaves the function at once
ParseAndCleanup ==
    /\ g_pc = "ran"
    /\ IF ~joblog.exists
       THEN /\ g_pc' = "raised"
            /\ g_error' = "FileNotFoundError"
            /\ UNCHANGED <<commands_file, joblog, g_results>>
       ELSE LET parsed == parse_joblog(Tail(joblog.text), 0, g_files, <<>>)
            IN  IF parsed.error # "none"
                THEN /\ g_pc' = "raised"
                     /\ g_error' = parsed.error
                     /\ UNCHANGED <<commands_file, joblog, g_results>>
                ELSE /\ g_results' = parsed.results
                     /\ commands_file' = NoFile
                     /\ joblog' = NoFile
                     /\ g_pc' = "returned"
                     /\ UNCHANGED g_error
    /\ UNCHANGED <<g_files, thread_count, use_resume, jobs, notParallel>>

NextParallel ==
    \/ BatchSequential
    \/ WriteCommands
    \/ RunParallel
    \/ ParseAndCleanup


(***************************************************************************)
(* parallel_api_upload.py: ParallelAPIUploader.upload_file_api             *)
(***************************************************************************)
\* How subprocess.run(cmd, stderr=..., capture_output=..., text=True) can
\* end. With capture_output it sets stdout and stderr itself, and it
\* raises ValueError before starting the program when the caller passed
\* either of them as well
run_outcomes(stderr_given, capture_output) ==
    IF capture_output /\ stderr_given
    THEN {"ValueError"}
    ELSE {"2xx", "failed", "OSError"}

\* `wait_time = min(60 * attempt, 300)` of the failure branch
api_wait_time(att) == Min(60 * att, 300)

\* The waits of the failure branch: none when the attempt ended with an
\* exception, which goes to `except Exception` and is only logged
backoff_after(outcome, att, n) ==
    IF outcome = "failed" /\ att < n THEN <<api_wait_time(att)>> ELSE <<>>

StartApi ==
    /\ u_retries \in 0..MaxApiRetries
    /\ u_metadata \in {"complete", "no uuid", "no project_id"}
    /\ u_attempt = 0
    /\ u_calls = <<>>
    /\ u_sleeps = <<>>
    /\ u_success = FALSE
    /\ marker_file = FALSE
    /\ progress_file = FALSE
    /\ stop_monitor = FALSE
    /\ m_pc = "none"
    /\ m_seen = FALSE

\* upload_file_api up to the loop: the metadata test, the monitor thread
\* and the marker file
ApiBegin ==
    /\ u_pc = "called"
    /\ IF u_metadata # "complete"
       THEN /\ u_pc' = "returned"
            /\ UNCHANGED <<marker_file, m_pc>>
       ELSE /\ m_pc' = "test"
            /\ marker_file' = TRUE
            /\ u_pc' = "loop"
    /\ UNCHANGED <<u_retries, u_metadata, u_attempt, u_calls, u_sleeps, u_success,
                   progress_file, stop_monitor, m_seen, notApi>>

\* `for attempt in range(1, self.retries + 1)`: the next round opens the
\* progress file for writing; after the last round the loop is left
ApiLoop ==
    /\ u_pc = "loop"
    /\ IF u_attempt < u_retries
       THEN /\ u_attempt' = u_attempt + 1
            /\ progress_file' = TRUE
            /\ u_pc' = "try"
       ELSE /\ u_pc' = "after"
            /\ UNCHANGED <<u_attempt, progress_file>>
    /\ UNCHANGED <<u_retries, u_metadata, u_calls, u_sleeps, u_success, marker_file,
                   stop_monitor, m_pc, m_seen, notApi>>

\* The body of the try: subprocess.run is called with stderr=progress_out
\* and capture_output=True; a 2xx answer sets success, a failure waits when
\* an attempt is left, an exception is logged
ApiRun ==
    /\ u_pc = "try"
    /\ \E outcome \in run_outcomes(TRUE, TRUE) :
         /\ u_calls' = Append(u_calls, outcome)
         /\ u_success' = (outcome = "2xx")
         /\ u_sleeps' = u_sleeps \o backoff_after(outcome, u_attempt, u_retries)
    /\ u_pc' = "finally"
    /\ UNCHANGED <<u_retries, u_metadata, u_attempt, marker_file, progress_file,
                   stop_monitor, m_pc, m_seen, notApi>>

\* The finally clause of the round removes the progress file and the
\* marker; the loop goes on unless the round ended with `break`
ApiFinally ==
    /\ u_pc = "finally"
    /\ progress_file' = FALSE
    /\ marker_file' = FALSE
    /\ u_pc' = IF u_success THEN "after" ELSE "loop"
    /\ UNCHANGED <<u_retries, u_metadata, u_attempt, u_calls, u_sleeps, u_success,
                   stop_monitor, m_pc, m_seen, notApi>>

\* After the loop: the monitor is told to stop and joined for at most 5
\* seconds, and the triple is returned
ApiEnd ==
    /\ u_pc = "after"
    /\ stop_monitor' = TRUE
    /\ u_pc' = "returned"
    /\ UNCHANGED <<u_retries, u_metadata, u_attempt, u_calls, u_sleeps, u_success,
                   marker_file, progress_file, m_pc, m_seen, notApi>>

\* _monitor_upload_progress: `while not stop_event.is_set()`, then the sleep
MonitorTest ==
    /\ m_pc = "test"
    /\ m_pc' = IF stop_monitor THEN "ended" ELSE "check"
    /\ UNCHANGED <<u_retries, u_metadata, u_pc, u_attempt, u_calls, u_sleeps,
                   u_success, marker_file, progress_file, stop_monitor, m_seen, notApi>>

\* _monitor_upload_progress: `if progress_file.exists()`
MonitorCheck ==
    /\ m_pc = "check"
    /\ m_seen' = (m_seen \/ progress_file)
    /\ m_pc' = "test"
    /\ UNCHANGED <<u_retries, u_metadata, u_pc, u_attempt, u_calls, u_sleeps,
                   u_success, marker_file, progress_file, stop_monitor, notApi>>

NextApi ==
    \/ ApiBegin
    \/ ApiLoop
    \/ ApiRun
    \/ ApiFinally
    \/ ApiEnd
    \/ MonitorTest
    \/ MonitorCheck


(***************************************************************************)
(* direct_upload.py: GDCDirectUploader.upload_file, next to the upload_file *)
(* of the standard strategy (specs/interfaces/example_implementations.py)  *)
(***************************************************************************)
\* How a gdc-client run can end: exit 0, a non-zero exit, or subprocess.run
\* itself failing (gdc-client missing)
GdcOutcomes == {"ok", "non-zero", "OSError"}

\* The standard strategy: `time.sleep(2 ** attempt)`, attempt counted from 1
standard_backoff(att) == <<Pow(2, att)>>

\* The direct strategy: `continue`
direct_backoff(att) == <<>>

StartUploadFile ==
    /\ d_strategy \in {"direct", "standard"}
    /\ d_retries \in 0..MaxDirectRetries
    /\ d_exists \in BOOLEAN
    /\ d_attempt = 0
    /\ d_calls = <<>>
    /\ d_sleeps = <<>>
    /\ d_result = "none"

\* GDCDirectUploader.upload_file up to the loop: a missing file ends the
\* call; `for attempt in range(self.retries)` counts from 0
DirectBegin ==
    /\ d_pc = "called"
    /\ d_strategy = "direct"
    /\ IF ~d_exists
       THEN d_pc' = "returned" /\ d_result' = "False"
       ELSE IF d_retries = 0
       THEN d_pc' = "returned" /\ d_result' = "None"
       ELSE d_pc' = "loop" /\ UNCHANGED d_result
    /\ UNCHANGED <<d_strategy, d_retries, d_exists, d_attempt, d_calls, d_sleeps,
                   notDirect>>

\* One round of the direct loop: subprocess.run(..., check=True); only
\* CalledProcessError is caught
DirectAttempt ==
    /\ d_pc = "loop"
    /\ d_strategy = "direct"
    /\ \E outcome \in GdcOutcomes :
         /\ d_calls' = Append(d_calls, outcome)
         /\ CASE outcome = "ok" ->
                   /\ d_pc' = "returned"
                   /\ d_result' = "True"
                   /\ UNCHANGED <<d_attempt, d_sleeps>>
              [] outcome = "non-zero" ->
                   IF d_attempt < d_retries - 1
                   THEN /\ d_sleeps' = d_sleeps \o direct_backoff(d_attempt)
                        /\ d_attempt' = d_attempt + 1
                        /\ UNCHANGED <<d_pc, d_result>>
                   ELSE /\ d_pc' = "returned"
                        /\ d_result' = "False"
                        /\ UNCHANGED <<d_attempt, d_sleeps>>
              [] outcome = "OSError" ->
                   /\ d_pc' = "raised"
                   /\ UNCHANGED <<d_attempt, d_sleeps, d_result>>
    /\ UNCHANGED <<d_strategy, d_retries, d_exists, notDirect>>

\* ParallelGDCClientUploader.upload_file up to the loop:
\* `for attempt in range(1, self.retry_count + 1)`
StandardBegin ==
    /\ d_pc = "called"
    /\ d_strategy = "standard"
    /\ IF d_retries = 0
       THEN d_pc' = "returned" /\ d_result' = "PENDING" /\ UNCHANGED d_attempt
       ELSE d_pc' = "loop" /\ d_attempt' = 1 /\ UNCHANGED d_result
    /\ UNCHANGED <<d_strategy, d_retries, d_exists, d_calls, d_sleeps, notDirect>>

\* One round of the standard loop: a non-zero exit raises
\* UploadFailedError, and `except Exception` handles every failure alike
StandardAttempt ==
    /\ d_pc = "loop"
    /\ d_strategy = "standard"
    /\ \E outcome \in GdcOutcomes :
         /\ d_calls' = Append(d_calls, outcome)
         /\ IF outcome = "ok"
            THEN /\ d_pc' = "returned"
                 /\ d_result' = "SUCCESS"
                 /\ UNCHANGED <<d_attempt, d_sleeps>>
            ELSE IF d_attempt = d_retries
            THEN /\ d_pc' = "returned"
                 /\ d_result' = "FAILED"
                 /\ UNCHANGED <<d_attempt, d_sleeps>>
            ELSE /\ d_sleeps' = d_sleeps \o standard_backoff(d_attempt)
                 /\ d_attempt' = d_attempt + 1
                 /\ UNCHANGED <<d_pc, d_result>>
    /\ UNCHANGED <<d_strategy, d_retries, d_exists, notDirect>>

NextDirect ==
    \/ DirectBegin
    \/ DirectAttempt
    \/ StandardBegin
    \/ StandardAttempt


(***************************************************************************)
(* core/plugins.py: UploaderRegistry                                       *)
(***************************************************************************)
\* class UploaderType(Enum), in definition order
UploaderTypes ==
    <<"parallel_gdc_client", "single_file", "api_parallel", "spot_resilient",
      "direct">>

\* The plugin classes there are to register, one per type
PluginTypes == { UploaderTypes[i] : i \in 1..MaxPluginTypes }

\* config.supported_features of the plugin class of a type
supported_features(t) ==
    CASE t = "single_file" -> {"PARALLEL_UPLOAD"}
      [] t = "direct" -> {}
      [] OTHER -> {"PARALLEL_UPLOAD", "RETRY_LOGIC"}

Priorities == {50, 100}
RequiredFeatures ==
    { {}, {"PARALLEL_UPLOAD"}, {"PARALLEL_UPLOAD", "RETRY_LOGIC"}, {"RESUME"} }

\* The two tests of the candidate loop
ignores_environment(t, required) == required \subseteq supported_features(t)
qualifies(t, required) ==
    /\ \A f \in required : f \in supported_features(t)
    /\ environment[t]

\* `candidates`: (priority, type) of every qualifying plugin, in the order
\* of self._plugins.values()
RECURSIVE candidates_of(_, _)
candidates_of(pl, required) ==
    IF pl = <<>> THEN <<>>
    ELSE LET rest == candidates_of(Tail(pl), required)
         IN  IF qualifies(Head(pl), required)
             THEN <<[ priority |-> priority[Head(pl)], type |-> Head(pl) ]>> \o rest
             ELSE rest

\* candidates.sort(key=lambda x: x[0], reverse=True): list.sort is stable,
\* with reverse=True as well; elements of equal priority keep their order
RECURSIVE insert_sorted(_, _)
insert_sorted(sorted, c) ==
    IF sorted = <<>> THEN <<c>>
    ELSE IF Head(sorted).priority >= c.priority
         THEN <<Head(sorted)>> \o insert_sorted(Tail(sorted), c)
         ELSE <<c>> \o sorted

RECURSIVE sort_candidates(_, _)
sort_candidates(cands, sorted) ==
    IF cands = <<>> THEN sorted
    ELSE sort_candidates(Tail(cands), insert_sorted(sorted, Head(cands)))

get_best_uploader(pl, required) ==
    LET candidates == sort_candidates(candidates_of(pl, required), <<>>)
    IN  IF candidates # <<>> THEN candidates[1].type ELSE None

NoBest == [ called |-> FALSE, required |-> {}, result |-> None ]

Registered == { plugins[i] : i \in 1..Len(plugins) }

\* UploaderRegistry.__new__, and the plugin classes of the program
StartPlugins ==
    /\ priority \in [PluginTypes -> Priorities]
    /\ environment \in [PluginTypes -> BOOLEAN]
    /\ plugins = <<>>
    /\ register_error = FALSE
    /\ best = NoBest

\* register(plugin_class)
Register(t) ==
    /\ IF t \in Registered
       THEN register_error' = TRUE /\ UNCHANGED plugins
       ELSE register_error' = FALSE /\ plugins' = Append(plugins, t)
    /\ best' = NoBest
    /\ UNCHANGED <<priority, environment, notPlugins>>

\* unregister(uploader_type)
Unregister(t) ==
    /\ t \in Registered
    /\ plugins' = SelectSeq(plugins, LAMBDA x : x # t)
    /\ register_error' = FALSE
    /\ best' = NoBest
    /\ UNCHANGED <<priority, environment, notPlugins>>

\* get_best_uploader(required_features)
GetBestUploader(required) ==
    /\ best' = [ called |-> TRUE, required |-> required,
                 result |-> get_best_uploader(plugins, required) ]
    /\ UNCHANGED <<priority, environment, plugins, register_error, notPlugins>>

NextPlugins ==
    \/ \E t \in PluginTypes : Register(t)
    \/ \E t \in PluginTypes : Unregister(t)
    \/ \E required \in RequiredFeatures : GetBestUploader(required)


(***************************************************************************)
(* core/file_operations.py: StandardFileDiscoveryStrategy.discover         *)
(***************************************************************************)
\* The directories of the tree under the base directory ("." is the base
\* directory itself), with their parent and their depth
Directories == {".", "fastq", "data", "nested", "nested/deep"}
parent(dir) == IF dir = "nested/deep" THEN "nested" ELSE "."
depth(dir) == CASE dir = "." -> 0 [] dir = "nested/deep" -> 2 [] OTHER -> 1

RECURSIVE ancestors(_)
ancestors(dir) == IF dir = "." THEN {} ELSE {parent(dir)} \cup ancestors(parent(dir))

\* config.subdirectories, in order
subdirectories == <<"fastq", "data">>

\* What a directory holds: nothing, a file of the wanted name, or a file
\* whose name differs from it in case only
Contents == {"none", "file", "other case"}

NoPath == [ dir |-> None, name |-> None ]
PathOf(dir, name) == [ dir |-> dir, name |-> name ]

\* _matches_patterns: fnmatch against the exclude and include patterns
\* compares names as they are spelled
matches_patterns(cfg, path) ==
    CASE cfg.patterns = "all" -> TRUE
      [] cfg.patterns = "wanted spelling" -> path.name = "wanted"
      [] OTHER -> FALSE

\* `test_path.exists() and test_path.is_file()` and the pattern test
found_at(t, cfg, dir) ==
    t[dir] = "file" /\ matches_patterns(cfg, PathOf(dir, "wanted"))

\* _search_subdirectories: the configured subdirectories in order, then
\* the base directory
RECURSIVE first_subdirectory(_, _, _)
first_subdirectory(t, cfg, subdirs) ==
    IF subdirs = <<>>
    THEN (IF found_at(t, cfg, ".") THEN PathOf(".", "wanted") ELSE NoPath)
    ELSE IF found_at(t, cfg, Head(subdirs))
         THEN PathOf(Head(subdirs), "wanted")
         ELSE first_subdirectory(t, cfg, Tail(subdirs))

search_subdirectories(t, cfg) == first_subdirectory(t, cfg, subdirectories)

\* _search_recursive: what one directory of the walk gives
walk_match(t, cfg, dir) ==
    IF cfg.max_depth # NoDepth /\ depth(dir) > cfg.max_depth THEN NoPath
    ELSE IF cfg.case_sensitive
         THEN (IF t[dir] = "file" /\ matches_patterns(cfg, PathOf(dir, "wanted"))
               THEN PathOf(dir, "wanted") ELSE NoPath)
         ELSE (IF t[dir] = "file" /\ matches_patterns(cfg, PathOf(dir, "wanted"))
               THEN PathOf(dir, "wanted")
               ELSE IF t[dir] = "other case"
                       /\ matches_patterns(cfg, PathOf(dir, "other case"))
               THEN PathOf(dir, "other case") ELSE NoPath)

\* os.walk goes top-down and takes the subdirectories of a directory in the
\* order the file system lists them: the walk can end at any matching
\* directory none of whose ancestors matches
search_recursive(t, cfg) ==
    LET hits == { dir \in Directories :
                    /\ walk_match(t, cfg, dir) # NoPath
                    /\ \A a \in ancestors(dir) : walk_match(t, cfg, a) = NoPath }
    IN  IF hits = {} THEN {NoPath} ELSE { walk_match(t, cfg, dir) : dir \in hits }

\* `if not file_path and self.config.recursive`
walks_anyway(cfg, fp) == cfg.recursive
falls_back(cfg, fp) == fp = NoPath /\ cfg.recursive

SearchConfigs ==
    [ recursive : BOOLEAN, case_sensitive : BOOLEAN, max_depth : {NoDepth, 1},
      patterns : {"all", "wanted spelling", "none"}, require_all_files : BOOLEAN ]

NoResult == [ kind |-> "none", path |-> NoPath, error |-> "none" ]

StartDiscovery ==
    /\ tree \in [Directories -> Contents]
    /\ base_kind \in {"dir", "file", "missing"}
    /\ base_kind # "dir" => tree = [ dir \in Directories |-> "none" ]
    /\ search_config \in SearchConfigs
    /\ file_path = NoPath
    /\ walked = FALSE
    /\ f_result = NoResult

\* discover up to the loop: the base directory must be a directory
DiscoverBegin ==
    /\ f_pc = "called"
    /\ IF base_kind # "dir"
       THEN /\ f_pc' = "done"
            /\ f_result' = [ kind |-> "raise", path |-> NoPath,
                             error |-> "InvalidDirectoryError" ]
       ELSE /\ f_pc' = "subdirs"
            /\ UNCHANGED f_result
    /\ UNCHANGED <<tree, base_kind, search_config, file_path, walked, notDiscovery>>

\* `file_path = self._search_subdirectories(base_directory, filename)`
SearchSubdirectories ==
    /\ f_pc = "subdirs"
    /\ file_path' = search_subdirectories(tree, search_config)
    /\ f_pc' = "searched"
    /\ UNCHANGED <<tree, base_kind, search_config, walked, f_result, notDiscovery>>

\* `file_path = self._search_recursive(base_directory, filename)`
SearchRecursive ==
    /\ f_pc = "searched"
    /\ falls_back(search_config, file_path)
    /\ ~walked
    /\ file_path' \in search_recursive(tree, search_config)
    /\ walked' = TRUE
    /\ UNCHANGED <<tree, base_kind, search_config, f_pc, f_result, notDiscovery>>

\* The rest of the round: the entry is validated and yielded, or
\* GDCFileNotFoundError is raised, or the file is passed over
Conclude ==
    /\ f_pc = "searched"
    /\ ~falls_back(search_config, file_path) \/ walked
    /\ IF file_path # NoPath
       THEN \E valid \in BOOLEAN :
              f_result' = IF valid
                          THEN [ kind |-> "yield", path |-> file_path,
                                 error |-> "none" ]
                          ELSE [ kind |-> "raise", path |-> NoPath,
                                 error |-> "FileSizeError" ]
       ELSE IF search_config.require_all_files
       THEN f_result' = [ kind |-> "raise", path |-> NoPath,
                          error |-> "GDCFileNotFoundError" ]
       ELSE f_result' = NoResult
    /\ f_pc' = "done"
    /\ UNCHANGED <<tree, base_kind, search_config, file_path, walked, notDiscovery>>

NextDiscovery ==
    \/ DiscoverBegin
    \/ SearchSubdirectories
    \/ SearchRecursive
    \/ Conclude


(***************************************************************************)
(* core/retry.py: RetryConfig.calculate_delay for any attempt number       *)
(***************************************************************************)
StartDelay ==
    /\ c_config \in [ strategy : Strategies, jitter : BOOLEAN ]
    /\ c_attempt = 0
    /\ c_delay = 0

\* config.calculate_delay(n)
CalculateDelay(n) ==
    /\ c_attempt' = n
    /\ c_delay' \in calculate_delay(c_config, n)
    /\ UNCHANGED <<c_config, notDelay>>

NextDelay == \E n \in 1..MaxDelayAttempt : CalculateDelay(n)


(***************************************************************************)
(* core/retry.py: SmartRetry.record_error and SmartRetry.adapt_config.     *)
(* backoff_base is in tenths, the delays are in microseconds.              *)
(***************************************************************************)
\* The errors recorded: TimeoutError, a RequestException whose response
\* has status 429, a RequestException with another status, a ValueError
ErrorKinds == {"TimeoutError", "RequestException 429",
               "RequestException 500", "ValueError"}

\* `self.error_history[-100:]`
history_limit == 100
keep_last(h, n) == IF Len(h) <= n THEN h ELSE SubSeq(h, Len(h) - n + 1, Len(h))

\* `(datetime.now() - ts).total_seconds() < 600`
recent_errors(h) == SelectSeq(h, LAMBDA x : x.recent)

count_kind(h, kind) == Cardinality({ i \in 1..Len(h) : h[i].kind = kind })

\* `if len(self.error_history) < 3: return`
has_enough_history(h) == Len(h) >= 3

\* SmartRetry.adapt_config
adapt_config(cfg, h) ==
    IF ~has_enough_history(h) THEN cfg
    ELSE LET recent == recent_errors(h)
             slower == IF 2 * count_kind(recent, "TimeoutError") > Len(recent)
                       THEN [ cfg EXCEPT !.initial_delay = (@ * 3) \div 2,
                                         !.max_delay = @ * 2 ]
                       ELSE cfg
         IN  IF count_kind(recent, "RequestException 429") > 0
             THEN [ slower EXCEPT !.strategy = "exponential",
                                  !.backoff_base = 25 ]
             ELSE slower

\* SmartRetry(initial_config)
StartSmart ==
    /\ smart_config \in [ strategy : Strategies, backoff_base : {10 * backoff_base},
                          initial_delay : {1000 * initial_delay},
                          max_delay : {1000 * max_delay} ]
    /\ error_history = <<>>

\* record_error(error): the error is appended with the current time, the
\* history is cut to its last 100 entries and adapt_config is called
RecordError(kind) ==
    /\ smart_calls > 0
    /\ smart_calls' = smart_calls - 1
    /\ LET h == keep_last(Append(error_history, [kind |-> kind, recent |-> TRUE]),
                          history_limit)
       IN  /\ error_history' = h
           /\ smart_config' = adapt_config(smart_config, h)
    /\ UNCHANGED notSmart

\* adapt_config() called on its own
AdaptConfig ==
    /\ smart_calls > 0
    /\ smart_calls' = smart_calls - 1
    /\ smart_config' = adapt_config(smart_config, error_history)
    /\ UNCHANGED <<error_history, notSmart>>

\* More than ten minutes pass: every error recorded so far is no longer
\* recent
TenMinutesPass ==
    /\ \E i \in 1..Len(error_history) : error_history[i].recent
    /\ error_history' = [ i \in 1..Len(error_history) |->
                            [ error_history[i] EXCEPT !.recent = FALSE ] ]
    /\ UNCHANGED <<smart_config, smart_calls, notSmart>>

NextSmart ==
    \/ \E kind \in ErrorKinds : RecordError(kind)
    \/ AdaptConfig
    \/ TenMinutesPass


(***************************************************************************)
(* specs/interfaces/exceptions_interface.py: ExitCodes.from_exception      *)
(***************************************************************************)
\* ExitCodes
GENERAL_ERROR == 1
UPLOAD_FAILED == 2
INVALID_METADATA == 3
FILE_NOT_FOUND == 4
AUTHENTICATION_ERROR == 5
CONFIGURATION_ERROR == 6
VALIDATION_ERROR == 7
NoExit == -1

Digits == <<"0", "1", "2", "3", "4", "5", "6", "7", "8", "9">>

\* An error code is "E" and three digits; a GDCUploaderError can be built
\* with any of them
ErrorCode(hundreds, tens, units) ==
    <<"E", Digits[hundreds + 1], Digits[tens + 1], Digits[units + 1]>>
ErrorCodes ==
    { ErrorCode(h, t, u) : h \in 0..9, t \in 0..MaxTens, u \in 0..9 }

\* The `mapping` dict of from_exception
mapping ==
    [ prefix \in {"1", "2", "3", "4", "5", "6", "7", "8"} |->
        CASE prefix = "1" -> FILE_NOT_FOUND
          [] prefix = "2" -> INVALID_METADATA
          [] prefix = "3" -> AUTHENTICATION_ERROR
          [] prefix = "4" -> UPLOAD_FAILED
          [] prefix = "5" -> VALIDATION_ERROR
          [] prefix = "6" -> CONFIGURATION_ERROR
          [] prefix = "7" -> GENERAL_ERROR
          [] prefix = "8" -> CONFIGURATION_ERROR ]

\* ExitCodes.from_exception: `error.error_code[1]` is the second character
from_exception(code) ==
    LET error_code_prefix == code[2]
    IN  IF error_code_prefix \in DOMAIN mapping
        THEN mapping[error_code_prefix]
        ELSE GENERAL_ERROR

StartExit ==
    /\ x_error_code = <<>>
    /\ x_exit_code = NoExit

\* ExitCodes.from_exception(error)
FromException(code) ==
    /\ x_error_code' = code
    /\ x_exit_code' = from_exception(code)
    /\ UNCHANGED notExit

NextExit == \E code \in ErrorCodes : FromException(code)


(***************************************************************************)
(* legacy/scripts/gdc_split_json.py: split_json_by_filename.  A file name  *)
(* is a sequence of characters; prefix and suffix are empty.               *)
(***************************************************************************)
\* The characters `[\w\-_\.]` keeps
SafeChars == {"a", "b", "-", "_", "."}

\* re.sub(r'_+', '_', s)
RECURSIVE collapse_underscores(_)
collapse_underscores(s) ==
    IF Len(s) <= 1 THEN s
    ELSE IF s[1] = "_" /\ s[2] = "_" THEN collapse_underscores(Tail(s))
    ELSE <<s[1]>> \o collapse_underscores(Tail(s))

\* s.strip('_')
RECURSIVE strip_underscores(_)
strip_underscores(s) ==
    IF s = <<>> THEN s
    ELSE IF s[1] = "_" THEN strip_underscores(Tail(s))
    ELSE IF s[Len(s)] = "_" THEN strip_underscores(SubSeq(s, 1, Len(s) - 1))
    ELSE s

\* sanitize_filename
sanitize_filename(filename) ==
    LET replaced == [ i \in 1..Len(filename) |->
                        IF filename[i] \in SafeChars THEN filename[i] ELSE "_" ]
    IN  strip_underscores(collapse_underscores(replaced))

\* The file_name values of the entries; NoFileName: the entry has no
\* file_name
NoFileName == <<"no file_name">>
FileNames ==
    { <<"a">>, <<"b">>, <<"a", " ">>, <<"a", " ", "b">>, <<"a", "_", "b">>,
      <<"a", " ", " ", "b">> }

Manifests ==
    UNION { [ 1..n -> FileNames \cup {NoFileName} ] : n \in 0..MaxSplitFiles }

\* The input file is read: entry i of the files array has its own uuid
StartSplit ==
    /\ \E names \in Manifests :
         manifest = [ i \in 1..Len(names) |-> [ file_name |-> names[i], uuid |-> i ] ]
    /\ sp_index = 1
    /\ output_dir = <<>>
    /\ created_files = <<>>

\* split_json_by_filename up to the loop
SplitBegin ==
    /\ sp_pc = "called"
    /\ sp_pc' = "loop"
    /\ UNCHANGED <<manifest, sp_index, output_dir, created_files, notSplit>>

\* One round of `for i, file_obj in enumerate(files_array)` for an entry
\* without file_name: a warning, and the entry is skipped
SplitSkip ==
    /\ sp_pc = "loop"
    /\ sp_index <= Len(manifest)
    /\ manifest[sp_index].file_name = NoFileName
    /\ sp_index' = sp_index + 1
    /\ UNCHANGED <<manifest, sp_pc, output_dir, created_files, notSplit>>

\* One round for an entry with a file_name: open(output_file_path, 'w')
\* creates the file or truncates the one of that name, and
\* {'files': [file_obj]} is written
SplitWrite ==
    /\ sp_pc = "loop"
    /\ sp_index <= Len(manifest)
    /\ manifest[sp_index].file_name # NoFileName
    /\ LET file_obj == manifest[sp_index]
           output_filename == sanitize_filename(file_obj.file_name)
       IN  /\ output_dir' = [ name \in DOMAIN output_dir \cup {output_filename} |->
                                IF name = output_filename THEN <<file_obj>>
                                ELSE output_dir[name] ]
           /\ created_files' = Append(created_files, output_filename)
    /\ sp_index' = sp_index + 1
    /\ UNCHANGED <<manifest, sp_pc, notSplit>>

\* The loop is over: `return True`
SplitReturn ==
    /\ sp_pc = "loop"
    /\ sp_index > Len(manifest)
    /\ sp_pc' = "returned"
    /\ UNCHANGED <<manifest, sp_index, output_dir, created_files, notSplit>>

NextSplit ==
    \/ SplitBegin
    \/ SplitSkip
    \/ SplitWrite
    \/ SplitReturn


(***************************************************************************)
(* api/client.py: TokenBucket; api/async_client.py: AsyncTokenBucket.      *)
(* Time is counted in ticks of 0.1 s, the length of one sleep.             *)
(***************************************************************************)
\* The threads (sync) or tasks (async) that share one bucket
Callers == {"first", "second"}

\* Beyond this many ticks a refill fills the bucket whatever it holds
ElapsedCap == MaxCapacity + MaxWant

\* TokenBucket has `self._lock = False` and never uses it; the consume of
\* AsyncTokenBucket runs under `async with self._lock`
always_locks(kind) == TRUE
takes_lock(kind) == kind = "async"

\* refill / _refill: min(capacity, tokens + elapsed * refill_rate)
refill(cap, rate, held, ticks) == Min(cap, held + ticks * rate)

\* What a caller does: nothing, one consume(n), or wait_for_tokens(n)
Calls ==
    [ mode : {"consume", "wait"}, want : 1..MaxWant, pc : {"call"},
      granted : {FALSE}, slept : {FALSE} ]
    \cup [ mode : {"idle"}, want : {1}, pc : {"done"}, granted : {FALSE},
           slept : {FALSE} ]

\* TokenBucket(tokens, refill_rate) with a positive refill rate
StartBucket ==
    /\ bucket_kind \in {"sync", "async"}
    /\ capacity \in 1..MaxCapacity
    /\ refill_rate \in 1..MaxCapacity
    /\ tokens = capacity
    /\ elapsed = 0
    /\ lock_holder = None
    /\ callers \in [Callers -> Calls]

\* consume, first statement: the lock is taken where there is one, and
\* refill() runs
ConsumeRefill(c) ==
    /\ callers[c].pc = "call"
    /\ takes_lock(bucket_kind) => lock_holder = None
    /\ lock_holder' = IF takes_lock(bucket_kind) THEN c ELSE lock_holder
    /\ tokens' = refill(capacity, refill_rate, tokens, elapsed)
    /\ elapsed' = 0
    /\ callers' = [callers EXCEPT ![c].pc = "test"]
    /\ UNCHANGED <<bucket_kind, capacity, refill_rate, notBucket>>

\* consume: `if self.tokens >= tokens:`; when the test fails consume
\* returns False, and wait_for_tokens goes to sleep
ConsumeTest(c) ==
    /\ callers[c].pc = "test"
    /\ IF tokens >= callers[c].want
       THEN /\ callers' = [callers EXCEPT ![c].pc = "subtract"]
            /\ UNCHANGED lock_holder
       ELSE /\ callers' = [callers EXCEPT
                             ![c].pc = IF callers[c].mode = "wait" THEN "sleep"
                                       ELSE "done"]
            /\ lock_holder' = IF lock_holder = c THEN None ELSE lock_holder
    /\ UNCHANGED <<bucket_kind, capacity, refill_rate, tokens, elapsed, notBucket>>

\* consume: `self.tokens -= tokens; return True`
ConsumeSubtract(c) ==
    /\ callers[c].pc = "subtract"
    /\ tokens' = tokens - callers[c].want
    /\ callers' = [callers EXCEPT ![c].pc = "done", ![c].granted = TRUE]
    /\ lock_holder' = IF lock_holder = c THEN None ELSE lock_holder
    /\ UNCHANGED <<bucket_kind, capacity, refill_rate, elapsed, notBucket>>

\* wait_for_tokens: `time.sleep(0.1)` / `await asyncio.sleep(0.1)`, then
\* consume is called again
WaitSleep(c) ==
    /\ callers[c].pc = "sleep"
    /\ elapsed' = Min(elapsed + 1, ElapsedCap)
    /\ callers' = [callers EXCEPT ![c].pc = "call", ![c].slept = TRUE]
    /\ UNCHANGED <<bucket_kind, capacity, refill_rate, tokens, lock_holder,
                   notBucket>>

\* Time passes while nobody sleeps
TimePasses ==
    /\ elapsed < ElapsedCap
    /\ elapsed' = elapsed + 1
    /\ UNCHANGED <<bucket_kind, capacity, refill_rate, tokens, lock_holder,
                   callers, notBucket>>

CallerStep(c) ==
    \/ ConsumeRefill(c)
    \/ ConsumeTest(c)
    \/ ConsumeSubtract(c)
    \/ WaitSleep(c)

NextBucket ==
    \/ \E c \in Callers : CallerStep(c)
    \/ TimePasses


(***************************************************************************)
(* Specifications: one component runs, the others stay as constructed      *)
(***************************************************************************)
IdleRetry ==
    /\ StartRetry
    /\ config = [ max_attempts |-> 0, strategy |-> "immediate", jitter |-> FALSE,
                  retry_on |-> {"Exception"}, dont_retry_on |-> {},
                  on_retry_callback |-> FALSE ]

IdleProgress ==
    /\ StartProgress
    /\ budget = [ starts |-> 0, updates |-> 0 ]

StartScope ==
    /\ StartProgress
    /\ budget = [ starts |-> 0, updates |-> MaxScopeUpdates ]

StartTracker ==
    /\ StartProgress
    /\ budget = [ starts |-> 1, updates |-> MaxUpdates ]

StartRestart ==
    /\ StartProgress
    /\ budget = [ starts |-> MaxStarts, updates |-> MaxRestartUpdates ]

IdleBatch ==
    /\ BatchLocals
    /\ batch_request = [ files |-> <<[file_id |-> 1, empty |-> FALSE]>>,
                         parallel_uploads |-> 1 ]
    /\ b_pc = "idle"

IdleRequest ==
    /\ StartRequest
    /\ max_retries = 0
    /\ calls_left = 0

LiveRequest == StartRequest /\ calls_left = MaxCalls

IdleAuth == StartAuth /\ ~validation_client

IdleSpot ==
    /\ StartSpot
    /\ retries = 0
    /\ state_file = NoState
    /\ s_pc = "idle"

LiveSpot == StartSpot /\ s_pc = "run"

IdleParallel ==
    /\ StartParallel
    /\ g_files = <<>>
    /\ thread_count = 1
    /\ use_resume
    /\ g_pc = "idle"

LiveParallel == StartParallel /\ g_pc = "called"

IdleApi ==
    /\ StartApi
    /\ u_retries = 0
    /\ u_metadata = "complete"
    /\ u_pc = "idle"

LiveApi == StartApi /\ u_pc = "called"

IdleDirect ==
    /\ StartUploadFile
    /\ d_strategy = "direct"
    /\ d_retries = 0
    /\ d_exists
    /\ d_pc = "idle"

LiveDirect == StartUploadFile /\ d_pc = "called"

IdlePlugins ==
    /\ StartPlugins
    /\ priority = [ t \in PluginTypes |-> 50 ]
    /\ environment = [ t \in PluginTypes |-> FALSE ]

IdleDiscovery ==
    /\ StartDiscovery
    /\ base_kind = "missing"
    /\ search_config = [ recursive |-> TRUE, case_sensitive |-> TRUE,
                         max_depth |-> NoDepth, patterns |-> "all",
                         require_all_files |-> TRUE ]
    /\ f_pc = "idle"

LiveDiscovery == StartDiscovery /\ f_pc = "called"

IdleDelay ==
    /\ StartDelay
    /\ c_config = [ strategy |-> "exponential", jitter |-> TRUE ]

IdleSmart ==
    /\ StartSmart
    /\ smart_config.strategy = "exponential"
    /\ smart_calls = 0

LiveSmart == StartSmart /\ smart_calls = MaxSmartCalls

IdleExit == StartExit

IdleSplit ==
    /\ StartSplit
    /\ manifest = <<>>
    /\ sp_pc = "idle"

LiveSplit == StartSplit /\ sp_pc = "called"

IdleBucket ==
    /\ StartBucket
    /\ bucket_kind = "async"
    /\ capacity = 1
    /\ refill_rate = 1
    /\ callers = [ c \in Callers |-> [ mode |-> "idle", want |-> 1, pc |-> "done",
                                       granted |-> FALSE, slept |-> FALSE ] ]

InitRetry ==
    StartRetry /\ IdleProgress /\ IdleBatch /\ IdleRequest /\ IdleAuth /\ IdleSpot
    /\ IdleParallel /\ IdleApi /\ IdleDirect /\ IdlePlugins /\ IdleDiscovery
    /\ IdleDelay /\ IdleSmart /\ IdleExit /\ IdleSplit /\ IdleBucket
InitProgress ==
    StartTracker /\ IdleRetry /\ IdleBatch /\ IdleRequest /\ IdleAuth /\ IdleSpot
    /\ IdleParallel /\ IdleApi /\ IdleDirect /\ IdlePlugins /\ IdleDiscovery
    /\ IdleDelay /\ IdleSmart /\ IdleExit /\ IdleSplit /\ IdleBucket
InitScope ==
    StartScope /\ IdleRetry /\ IdleBatch /\ IdleRequest /\ IdleAuth /\ IdleSpot
    /\ IdleParallel /\ IdleApi /\ IdleDirect /\ IdlePlugins /\ IdleDiscovery
    /\ IdleDelay /\ IdleSmart /\ IdleExit /\ IdleSplit /\ IdleBucket
InitRestart ==
    StartRestart /\ IdleRetry /\ IdleBatch /\ IdleRequest /\ IdleAuth /\ IdleSpot
    /\ IdleParallel /\ IdleApi /\ IdleDirect /\ IdlePlugins /\ IdleDiscovery
    /\ IdleDelay /\ IdleSmart /\ IdleExit /\ IdleSplit /\ IdleBucket
InitBatch ==
    StartBatch /\ IdleRetry /\ IdleProgress /\ IdleRequest /\ IdleAuth /\ IdleSpot
    /\ IdleParallel /\ IdleApi /\ IdleDirect /\ IdlePlugins /\ IdleDiscovery
    /\ IdleDelay /\ IdleSmart /\ IdleExit /\ IdleSplit /\ IdleBucket
InitRequest ==
    LiveRequest /\ IdleRetry /\ IdleProgress /\ IdleBatch /\ IdleAuth /\ IdleSpot
    /\ IdleParallel /\ IdleApi /\ IdleDirect /\ IdlePlugins /\ IdleDiscovery
    /\ IdleDelay /\ IdleSmart /\ IdleExit /\ IdleSplit /\ IdleBucket
InitAuth ==
    StartAuth /\ IdleRetry /\ IdleProgress /\ IdleBatch /\ IdleRequest /\ IdleSpot
    /\ IdleParallel /\ IdleApi /\ IdleDirect /\ IdlePlugins /\ IdleDiscovery
    /\ IdleDelay /\ IdleSmart /\ IdleExit /\ IdleSplit /\ IdleBucket
InitSpot ==
    LiveSpot /\ IdleRetry /\ IdleProgress /\ IdleBatch /\ IdleRequest /\ IdleAuth
    /\ IdleParallel /\ IdleApi /\ IdleDirect /\ IdlePlugins /\ IdleDiscovery
    /\ IdleDelay /\ IdleSmart /\ IdleExit /\ IdleSplit /\ IdleBucket

InitParallel ==
    LiveParallel /\ IdleRetry /\ IdleProgress /\ IdleBatch /\ IdleRequest /\ IdleAuth
    /\ IdleSpot /\ IdleApi /\ IdleDirect /\ IdlePlugins /\ IdleDiscovery
    /\ IdleDelay /\ IdleSmart /\ IdleExit /\ IdleSplit /\ IdleBucket

InitApi ==
    LiveApi /\ IdleRetry /\ IdleProgress /\ IdleBatch /\ IdleRequest /\ IdleAuth
    /\ IdleSpot /\ IdleParallel /\ IdleDirect /\ IdlePlugins /\ IdleDiscovery
    /\ IdleDelay /\ IdleSmart /\ IdleExit /\ IdleSplit /\ IdleBucket

InitDirect ==
    LiveDirect /\ IdleRetry /\ IdleProgress /\ IdleBatch /\ IdleRequest /\ IdleAuth
    /\ IdleSpot /\ IdleParallel /\ IdleApi /\ IdlePlugins /\ IdleDiscovery
    /\ IdleDelay /\ IdleSmart /\ IdleExit /\ IdleSplit /\ IdleBucket

InitPlugins ==
    StartPlugins /\ IdleRetry /\ IdleProgress /\ IdleBatch /\ IdleRequest /\ IdleAuth
    /\ IdleSpot /\ IdleParallel /\ IdleApi /\ IdleDirect /\ IdleDiscovery
    /\ IdleDelay /\ IdleSmart /\ IdleExit /\ IdleSplit /\ IdleBucket

InitDiscovery ==
    LiveDiscovery /\ IdleRetry /\ IdleProgress /\ IdleBatch /\ IdleRequest /\ IdleAuth
    /\ IdleSpot /\ IdleParallel /\ IdleApi /\ IdleDirect /\ IdlePlugins
    /\ IdleDelay /\ IdleSmart /\ IdleExit /\ IdleSplit /\ IdleBucket

InitDelay ==
    StartDelay /\ IdleRetry /\ IdleProgress /\ IdleBatch /\ IdleRequest /\ IdleAuth
    /\ IdleSpot /\ IdleParallel /\ IdleApi /\ IdleDirect /\ IdlePlugins
    /\ IdleDiscovery /\ IdleSmart /\ IdleExit /\ IdleSplit /\ IdleBucket

InitSmart ==
    LiveSmart /\ IdleRetry /\ IdleProgress /\ IdleBatch /\ IdleRequest /\ IdleAuth
    /\ IdleSpot /\ IdleParallel /\ IdleApi /\ IdleDirect /\ IdlePlugins
    /\ IdleDiscovery /\ IdleDelay /\ IdleExit /\ IdleSplit /\ IdleBucket

InitExit ==
    StartExit /\ IdleRetry /\ IdleProgress /\ IdleBatch /\ IdleRequest /\ IdleAuth
    /\ IdleSpot /\ IdleParallel /\ IdleApi /\ IdleDirect /\ IdlePlugins
    /\ IdleDiscovery /\ IdleDelay /\ IdleSmart /\ IdleSplit /\ IdleBucket

InitSplit ==
    LiveSplit /\ IdleRetry /\ IdleProgress /\ IdleBatch /\ IdleRequest /\ IdleAuth
    /\ IdleSpot /\ IdleParallel /\ IdleApi /\ IdleDirect /\ IdlePlugins
    /\ IdleDiscovery /\ IdleDelay /\ IdleSmart /\ IdleExit /\ IdleBucket

InitBucket ==
    StartBucket /\ IdleRetry /\ IdleProgress /\ IdleBatch /\ IdleRequest /\ IdleAuth
    /\ IdleSpot /\ IdleParallel /\ IdleApi /\ IdleDirect /\ IdlePlugins
    /\ IdleDiscovery /\ IdleDelay /\ IdleSmart /\ IdleExit /\ IdleSplit

SpecRetry == InitRetry /\ [][NextRetry]_vars
SpecProgress == InitProgress /\ [][NextProgress]_vars
SpecScope == InitScope /\ [][NextScope]_vars
SpecRestart == InitRestart /\ [][NextProgress]_vars
SpecBatch == InitBatch /\ [][NextBatch]_vars
SpecRequest == InitRequest /\ [][NextRequest]_vars
SpecAuth == InitAuth /\ [][NextAuth]_vars
SpecSpot == InitSpot /\ [][NextSpot]_vars
SpecParallel == InitParallel /\ [][NextParallel]_vars
SpecApi == InitApi /\ [][NextApi]_vars
SpecDirect == InitDirect /\ [][NextDirect]_vars
SpecPlugins == InitPlugins /\ [][NextPlugins]_vars
SpecDiscovery == InitDiscovery /\ [][NextDiscovery]_vars
SpecDelay == InitDelay /\ [][NextDelay]_vars
SpecSmart == InitSmart /\ [][NextSmart]_vars
SpecExit == InitExit /\ [][NextExit]_vars
SpecSplit == InitSplit /\ [][NextSplit]_vars
SpecBucket == InitBucket /\ [][NextBucket]_vars

\* The scheduler lets every caller of the bucket run again and again
FairBucket ==
    SpecBucket /\ \A c \in Callers : WF_vars(CallerStep(c))


(***************************************************************************)
(* Claims about RetryManager.execute                                       *)
(***************************************************************************)
IsRetryableFailure(c) == c # OkCall /\ should_retry(config, c)
IsFatalFailure(c) == c # OkCall /\ ~should_retry(config, c)

\* C1: with max_attempts = k >= 1, a function whose every invocation raises a
\* retryable error has been invoked exactly k times when execute ends, and
\* execute raises the very exception the k-th invocation raised.
C1_ExhaustionReraisesLast ==
    ( /\ r_pc = "done"
      /\ config.max_attempts >= 1
      /\ \A i \in 1..Len(r_calls) : IsRetryableFailure(r_calls[i]) )
    => ( /\ Len(r_calls) = config.max_attempts
         /\ r_outcome = "raised"
         /\ r_raised = r_calls[config.max_attempts] )

C1_Witness ==
    /\ r_pc = "done"
    /\ config.max_attempts = MaxAttempts
    /\ Len(r_calls) = MaxAttempts
    /\ \A i \in 1..Len(r_calls) : IsRetryableFailure(r_calls[i])
    /\ r_raised = r_calls[MaxAttempts]

\* C2: an invocation that raises an error should_retry rejects is the last
\* one: execute has ended re-raising that error, nothing was slept after it,
\* and when it was the first invocation nothing was slept at all.
C2_FatalErrorStopsAtOnce ==
    \A i \in 1..Len(r_calls) :
        IsFatalFailure(r_calls[i])
        => ( /\ i = Len(r_calls)
             /\ r_pc = "done"
             /\ r_outcome = "raised"
             /\ r_raised = r_calls[i]
             /\ Len(r_sleeps) <= i - 1
             /\ (i = 1 => r_sleeps = <<>> /\ statistics.total_attempts = 1) )

C2_Witness ==
    /\ config.max_attempts = MaxAttempts
    /\ Len(r_calls) = 1
    /\ IsFatalFailure(r_calls[1])
    /\ r_pc = "done"



(***************************************************************************)
(* Claims about ThreadSafeProgressTracker and progress_tracking            *)
(***************************************************************************)
ScenarioDone ==
    /\ initialized
    /\ update_queue = <<>>
    /\ \A u \in DOMAIN file_stats : scenario[u] = "completed"

\* C3: once every tracked file has had partial progress reported and then
\* mark_file_completed(success=True), and the worker has processed every
\* update, transferred_bytes equals the total T of the declared sizes and
\* completed_files equals the number of files.
C3_ProgressConservation ==
    ScenarioDone
    => ( /\ stats.transferred_bytes = SumSizes(files)
         /\ stats.completed_files = Len(files) )

\* The same with every progress report carrying no total_bytes, or the
\* declared size as total_bytes: the record's size stays the declared one
SizesAsDeclared ==
    \A u \in DOMAIN file_stats : file_stats[u].size = DeclaredSize(u)

C3_Witness ==
    /\ ScenarioDone
    /\ Len(files) = 2
    /\ SizesAsDeclared
    /\ stats.transferred_bytes = SumSizes(files)
    /\ stats.completed_files = 2

\* C4: whenever the progress_tracking scope has been left, normally or by
\* an exception of the managed block, the tracker is stopped and the final
\* summary has been rendered.
C4_StoppedAndSummaryOnEveryExit ==
    ctx_pc = "exited" => (stop_event /\ summary # NoSummary)

C4_Witness ==
    /\ ctx_pc = "exited"
    /\ ctx_error = "BodyError"
    /\ stop_event
    /\ summary = stats


(***************************************************************************)
(* Claims about AsyncGDCAPIClient.batch_upload                             *)
(***************************************************************************)
RaisedFiles == { i \in 1..NumFiles : completed_tasks[i].error \in UploadErrors }

\* C5: at every moment of batch_upload the number of file uploads in flight
\* is at most the request's parallel_uploads.
C5_InFlightBounded ==
    Cardinality(InFlight) <= batch_request.parallel_uploads

C5_Witness ==
    /\ NumFiles > batch_request.parallel_uploads
    /\ batch_request.parallel_uploads = MaxParallel
    /\ Cardinality(InFlight) = MaxParallel
    /\ \E i \in 1..NumFiles : task_pc[i] = "waiting"

\* C6: a failed upload never keeps another file from being uploaded: once
\* the gather is over every requested file has been attempted; each upload
\* that raised contributes a response of status failed for its file; and a
\* BatchUploadResponse that is returned holds one result per requested file
\* with successful + failed = total_files.
C6_FailuresAreIsolated ==
    /\ b_pc \in {"collect", "returned", "raised"}
       => \A i \in 1..NumFiles : task_pc[i] = "done"
    /\ \A i \in 1..Len(results) :
          i \in RaisedFiles
          => ( /\ results[i].status = "failed"
               /\ results[i].file_id = batch_request.files[i].file_id
               /\ results[i].errors = <<completed_tasks[i].error>> )
    /\ b_pc = "returned"
       => ( /\ batch_response.total_files = NumFiles
            /\ Len(batch_response.results) = NumFiles
            /\ batch_response.successful + batch_response.failed = NumFiles
            /\ batch_response.failed = Cardinality(RaisedFiles)
            /\ \A i \in RaisedFiles : batch_response.results[i].status = "failed" )

C6_Witness ==
    /\ b_pc = "returned"
    /\ NumFiles = MaxFiles
    /\ 1 \in RaisedFiles
    /\ batch_response.failed = 1
    /\ batch_response.successful = MaxFiles - 1
    /\ batch_response.results[MaxFiles].status = "completed"


(***************************************************************************)
(* Claims about AsyncGDCAPIClient._make_request, start and close           *)
(***************************************************************************)
AllServerErrors ==
    /\ q_attempts # <<>>
    /\ \A i \in 1..Len(q_attempts) :
          q_attempts[i].dispatched /\ q_attempts[i].status >= 500

\* C7: a call whose every attempt was answered with a status >= 500 has,
\* when it ends, sent the request max_retries + 1 times, slept 0.5 * 2^k
\* seconds before retry k+1 (500, 1000, 2000, ... ms) and raised the server
\* error; and no call ever retries more than max_retries times.
C7_ServerErrorsRetriedWithBackoff ==
    /\ (q_pc = "done" /\ AllServerErrors)
       => ( /\ Len(q_attempts) = max_retries + 1
            /\ q_sleeps = [ k \in 1..max_retries |-> 500 * Pow(2, k - 1) ]
            /\ q_outcome = "GDCServerError" )
    /\ retry_count <= max_retries
    /\ Len(q_sleeps) <= max_retries

C7_Witness ==
    /\ q_pc = "done"
    /\ AllServerErrors
    /\ max_retries = MaxRetries
    /\ Len(q_attempts) = MaxRetries + 1
    /\ Len(q_sleeps) = MaxRetries
    /\ q_sleeps[MaxRetries] = 500 * Pow(2, MaxRetries - 1)
    /\ q_outcome = "GDCServerError"

Unusable == {"new", "closed"}

FailsUnlessValid(second) ==
    /\ second # "valid" => a_call.result = "GDCAuthenticationError"
    /\ a_call.result # "GDCAuthenticationError"
       => (second = "valid" /\ a_call.result = a_call.refresh)

\* C9 as stated: a get_token call whose validation found the token invalid
\* asked the base provider to refresh once and validated a second time, and
\* failed with GDCAuthenticationError unless that second validation found
\* the token valid.
C9_RefreshOnceRevalidateOnce ==
    a_call.first = "invalid"
    => ( /\ a_call.refreshes = 1
         /\ a_call.validations = 2
         /\ FailsUnlessValid(a_call.second) )

\* C9: a get_token call whose validation found the token invalid asked the
\* base provider to refresh once; it validated a second time exactly when
\* the refresh returned a token; and it failed with GDCAuthenticationError
\* unless that second validation found the refreshed token valid.
C9_RefreshOnceRevalidateIfRefreshed ==
    a_call.first = "invalid"
    => ( /\ a_call.refreshes = 1
         /\ a_call.validations = IF a_call.refresh = "t2" THEN 2 ELSE 1
         /\ a_call.refresh # "t2" => a_call.second = "none"
         /\ FailsUnlessValid(a_call.second) )

C9_Witness ==
    /\ a_call.first = "invalid"
    /\ a_call.refresh = "t2"
    /\ a_call.second = "invalid"
    /\ a_call.validations = 2
    /\ a_call.result = "GDCAuthenticationError"


Skipped == s_pc = "exited" /\ s_result = "none" /\ exit_code = 0

\* The checkpoint the run found was written for the target of this run
SameTarget(st) == st.file = "file_path" /\ st.uuid = "uuid"

\* C11: a run ends as a no-op exactly when the checkpoint it found records
\* "completed" for the file and uuid it was asked to upload; a "completed"
\* checkpoint of another target does not make it skip its own target.
C11_SkipsOnlyItsOwnCompletedTarget ==
    s_pc = "exited"
    => (Skipped <=> (previous_state.status = "completed" /\ SameTarget(previous_state)))

C11_Witness ==
    /\ Skipped
    /\ previous_state = Checkpoint("completed", 0)
    /\ gdc_calls = 0

WrittenByThisRun ==
    \/ s_pc \in {"check", "gdc", "sleep", "killed"}
    \/ s_pc \in {"returned", "exited"} /\ has_uuid /\ s_result \in {"False", "None"}

Statuses == {"uploading", "interrupted", "completed", "failed"}

\* C13: every checkpoint the run leaves in the state file, the one of the
\* signal handler included, names the file and the uuid and carries a status
\* among uploading, interrupted, completed and failed.
C13_CheckpointsIdentifyTargetAndStatus ==
    (WrittenByThisRun /\ state_file # NoState)
    => ( /\ state_file.file # None
         /\ state_file.uuid # None
         /\ state_file.status \in Statuses )

C13_Witness ==
    /\ s_pc = "returned"
    /\ s_result = "False"
    /\ state_file = Checkpoint("failed", 0)
    /\ gdc_calls = MaxSpotRetries

(***************************************************************************)
(* Claims about ParallelGDCClientUploader.upload_batch                     *)
(***************************************************************************)
\* The call went through GNU parallel and has ended
ParallelBatchEnded == thread_count # 1 /\ g_pc \in {"returned", "raised"}

\* The exit code of the job that ran the command of file f
OwnExitCode(f) ==
    LET j == CHOOSE j \in 1..Len(jobs) : f \in jobs[j].files
    IN  jobs[j].exitval

\* C14: when GNU parallel has run the commands of a batch, upload_batch
\* returns one result per file, result i is the result of files[i], and its
\* status is SUCCESS exactly when the command of files[i] exited with 0,
\* in whatever order the jobs finished.
C14_ResultsFollowSubmissionOrder ==
    (ParallelBatchEnded /\ jobs # <<>>)
    => ( /\ g_pc = "returned"
         /\ Len(g_results) = Len(g_files)
         /\ \A i \in 1..Len(g_files) :
              /\ g_results[i].file = g_files[i]
              /\ (g_results[i].status = "SUCCESS") <=> (OwnExitCode(g_files[i]) = 0) )

C14_Witness ==
    /\ ParallelBatchEnded
    /\ Len(g_files) = 3
    /\ jobs # <<>>
    /\ joblog.exists
    /\ Len(joblog.text) = Len(jobs) + 1

\* C15: when a batch that went through GNU parallel has ended, by a return
\* or by an exception, neither the commands file nor the joblog is left.
C15_TemporaryFilesRemoved ==
    ParallelBatchEnded => (~commands_file.exists /\ ~joblog.exists)

C15_Witness ==
    /\ ParallelBatchEnded
    /\ g_pc = "returned"
    /\ thread_count = 3
    /\ ~commands_file.exists
    /\ ~joblog.exists

(***************************************************************************)
(* Claims about ParallelAPIUploader.upload_file_api                        *)
(***************************************************************************)
\* The attempts that failed and were not the last one the loop allows
FailedBeforeLast ==
    { k \in 1..Len(u_calls) : u_calls[k] # "2xx" /\ k < u_retries }

\* C16: when upload_file_api has returned, it made at most `retries`
\* attempts, and after every failed attempt but the last one, whether curl
\* failed or an exception was raised, it waited min(60 * attempt, 300)
\* seconds.
C16_BackoffAfterEveryFailedAttempt ==
    (u_pc = "returned" /\ u_metadata = "complete")
    => ( /\ Len(u_calls) <= u_retries
         /\ u_sleeps = [ k \in 1..Cardinality(FailedBeforeLast) |-> api_wait_time(k) ] )

C16_Witness ==
    /\ u_pc = "returned"
    /\ u_retries = MaxApiRetries
    /\ Len(u_calls) = MaxApiRetries
    /\ ~u_success
    /\ ~marker_file

(***************************************************************************)
(* Claims about GDCDirectUploader.upload_file                              *)
(***************************************************************************)
\* C17: when the direct strategy's upload_file has ended, gdc-client was
\* run at most `retries` times, and between consecutive runs it waited as
\* the standard strategy does: 2^k seconds after the k-th run.
C17_DirectBacksOffLikeStandard ==
    (d_strategy = "direct" /\ d_pc \in {"returned", "raised"})
    => ( /\ Len(d_calls) <= d_retries
         /\ d_sleeps = [ k \in 1..(Len(d_calls) - 1) |-> Pow(2, k) ] )

C17_Witness ==
    /\ d_strategy = "direct"
    /\ d_pc = "returned"
    /\ d_result = "False"
    /\ d_retries = MaxDirectRetries
    /\ Len(d_calls) = MaxDirectRetries

(***************************************************************************)
(* Claims about UploaderRegistry.get_best_uploader                         *)
(***************************************************************************)
\* The registered types that support every required feature and whose
\* environment validates
Qualifying(required) ==
    { t \in Registered : required \subseteq supported_features(t) /\ environment[t] }

\* Those of them with the highest priority
Top(required) ==
    { t \in Qualifying(required) :
        \A o \in Qualifying(required) : priority[t] >= priority[o] }

\* The position of a type in the UploaderType enumeration
EnumIndex(t) == CHOOSE i \in 1..Len(UploaderTypes) : UploaderTypes[i] = t

C19_TiesGoToEnumerationOrder ==
    (best.called /\ Cardinality(Top(best.required)) > 1)
    => ( /\ best.result \in Top(best.required)
         /\ \A t \in Top(best.required) : EnumIndex(best.result) <= EnumIndex(t) )

C19_Witness ==
    /\ best.called
    /\ Top(best.required) = {"parallel_gdc_client", "api_parallel"}
    /\ plugins = <<"parallel_gdc_client", "single_file", "api_parallel">>
    /\ best.result = "parallel_gdc_client"

(***************************************************************************)
(* Claims about StandardFileDiscoveryStrategy.discover                     *)
(***************************************************************************)
\* The configured subdirectories, and the base directory, that hold a
\* valid match: a file of the wanted name that passes the patterns
ShallowMatches ==
    { dir \in {subdirectories[i] : i \in 1..Len(subdirectories)} \cup {"."} :
        found_at(tree, search_config, dir) }

\* The directories deeper in the tree that hold the file as well
DeeperCopies == { dir \in {"nested", "nested/deep"} : tree[dir] = "file" }

OnDisk == \E dir \in Directories : tree[dir] = "file"

\* C21: with require_all_files disabled, discover yields an entry for the
\* file spec whatever the search gives: the found path when there is one,
\* an absent path when the file is found nowhere; the entry is never
\* dropped and its absence raises nothing (a found file can still fail
\* the size validation).
C21_EveryEntryYielded ==
    (f_pc = "done" /\ base_kind = "dir" /\ ~search_config.require_all_files)
    => \/ f_result.kind = "yield" /\ f_result.path = file_path
       \/ f_result.kind = "raise" /\ f_result.error = "FileSizeError"

C21_Witness ==
    /\ f_pc = "done"
    /\ base_kind = "dir"
    /\ ~search_config.require_all_files
    /\ file_path # NoPath
    /\ f_result.kind = "yield"
    /\ f_result.path = file_path

\* C22: with require_all_files at its default (True), a file spec whose
\* only file on disk is rejected by the exclude patterns is treated as
\* not found and passed over: discover raises nothing and yields no entry
\* for it.
C22_ExcludedEntryOmittedQuietly ==
    (/\ f_pc = "done"
     /\ base_kind = "dir"
     /\ search_config.require_all_files
     /\ search_config.patterns = "none"
     /\ OnDisk)
    => f_result = NoResult

C22_Witness ==
    /\ f_pc = "done"
    /\ base_kind = "dir"
    /\ ~search_config.require_all_files
    /\ search_config.patterns = "none"
    /\ OnDisk
    /\ file_path = NoPath
    /\ f_result = NoResult

(***************************************************************************)
(* Claims about RetryStatistics, the retry callback and calculate_delay    *)
(***************************************************************************)
\* The invocations of func so far that returned / that raised
Returned == { i \in 1..Len(r_calls) : r_calls[i].cls = "ok" }
Failed == { i \in 1..Len(r_calls) : r_calls[i].cls # "ok" }

\* C23: every invocation of func by execute is recorded exactly once:
\* total_attempts is the number of invocations made, successful_attempts
\* and failed_attempts count the ones that returned and the ones that
\* raised, and they add up to total_attempts, during the run and when
\* execute has returned or raised.
C23_EveryInvocationRecordedOnce ==
    /\ statistics.total_attempts = Len(r_calls)
    /\ statistics.successful_attempts = Cardinality(Returned)
    /\ statistics.failed_attempts = Cardinality(Failed)
    /\ statistics.total_attempts
         = statistics.successful_attempts + statistics.failed_attempts

C23_Witness ==
    /\ r_pc = "done"
    /\ r_outcome = "returned"
    /\ Len(r_calls) = 3
    /\ statistics.total_attempts = 3
    /\ statistics.successful_attempts = 1
    /\ statistics.failed_attempts = 2

\* The failed attempts that are followed by another attempt: every
\* invocation so far while execute runs, every one but the last when it
\* has returned or raised
FollowedByAnother ==
    1..(IF r_pc = "done" THEN Len(r_calls) - 1 ELSE Len(r_calls))

\* C24: the configured on-retry callback is called exactly once after each
\* failed attempt that is followed by another attempt, with the exception
\* of that attempt and its number, in order; it is not called after a
\* success, after the last failed attempt or after an error that is not
\* retryable.
C24_CallbackOncePerRetriedFailure ==
    config.on_retry_callback
    => /\ r_callbacks = [ i \in FollowedByAnother |-> <<r_calls[i].id, i>> ]
       /\ \A i \in FollowedByAnother :
            /\ r_calls[i].cls # "ok"
            /\ should_retry(config, r_calls[i])
            /\ i < config.max_attempts

C24_Witness ==
    /\ config.on_retry_callback
    /\ r_pc = "done"
    /\ r_outcome = "raised"
    /\ Len(r_calls) = 3
    /\ ~should_retry(config, r_calls[3])
    /\ r_callbacks = <<<<1, 1>>, <<2, 2>>>>

\* 2^(n-1) seconds for n = 1..4, in milliseconds
DoublingDelays == <<1000, 2000, 4000, 8000>>

\* C25: with the exponential strategy, initial_delay 1 s, backoff_base 2
\* and no jitter, calculate_delay(n) is 2^(n-1) seconds for n = 1..4 and
\* max_delay for n = 10; in general it is
\* min(initial_delay * backoff_base^(n-1) * backoff_multiplier, max_delay).
C25_ExponentialDelayCapped ==
    (c_attempt > 0 /\ c_config.strategy = "exponential" /\ ~c_config.jitter)
    => /\ c_attempt \in 1..4 => c_delay = DoublingDelays[c_attempt]
       /\ c_attempt = 10 => c_delay = max_delay
       /\ \/ c_delay = max_delay
             /\ initial_delay * Pow(backoff_base, c_attempt - 1)
                  * backoff_multiplier >= max_delay
          \/ c_delay = initial_delay * Pow(backoff_base, c_attempt - 1)
                         * backoff_multiplier
             /\ c_delay <= max_delay

C25_Witness ==
    /\ c_config.strategy = "exponential"
    /\ ~c_config.jitter
    /\ c_attempt = 10
    /\ c_delay = max_delay

(***************************************************************************)
(* Claims about SmartRetry                                                 *)
(***************************************************************************)
\* C26: as soon as an error of the recorded history is an HTTP 429, even
\* when it is the only error recorded, the adapted configuration has the
\* exponential strategy and backoff_base 2.5.
C26_RateLimitSwitchesToExponential ==
    count_kind(error_history, "RequestException 429") > 0
    => /\ smart_config.strategy = "exponential"
       /\ smart_config.backoff_base = 25

C26_Witness ==
    /\ Len(error_history) = 3
    /\ error_history[3].kind = "RequestException 429"
    /\ error_history[3].recent
    /\ error_history[1].kind = "ValueError"
    /\ smart_config.strategy = "exponential"
    /\ smart_config.backoff_base = 25

(***************************************************************************)
(* Claims about ExitCodes.from_exception                                   *)
(***************************************************************************)
\* The error codes the exception classes of the module are built with
DefinedCodes ==
    { ErrorCode(h, 0, u) : h \in 1..8, u \in 1..2 } \cup {ErrorCode(4, 0, 3)}

\* The documented rule: the exit code for each leading digit
LeadingDigitRule ==
    [ digit \in {"1", "2", "3", "4", "5", "6", "7", "8"} |->
        CASE digit = "1" -> 4 [] digit = "2" -> 3 [] digit = "3" -> 5
          [] digit = "4" -> 2 [] digit = "5" -> 7 [] digit = "6" -> 6
          [] digit = "7" -> 1 [] digit = "8" -> 1 ]

\* C27: from_exception returns an exit code for every defined error code
\* E1xx to E8xx, the one of the leading-digit rule: 1xx gives 4, 2xx 3,
\* 3xx 5, 4xx 2, 5xx 7, 6xx 6, 7xx and 8xx the general error 1.
C27_ExitCodeFollowsLeadingDigit ==
    x_error_code \in DefinedCodes => x_exit_code = LeadingDigitRule[x_error_code[2]]

C27_Witness ==
    /\ x_error_code = ErrorCode(7, 0, 1)
    /\ x_exit_code = GENERAL_ERROR

(***************************************************************************)
(* Claims about split_json_by_filename                                     *)
(***************************************************************************)
\* Every entry of the manifest has a file_name
AllNamed == \A i \in 1..Len(manifest) : manifest[i].file_name # NoFileName

\* The entries found in the output files, each with the number of output
\* files that hold it
Written(entry) ==
    Cardinality({ name \in DOMAIN output_dir :
                    \E k \in 1..Len(output_dir[name]) : output_dir[name][k] = entry })

\* C28: splitting a manifest of N file entries leaves exactly N output
\* files, each holding exactly one entry, and together they hold each
\* entry of the files array exactly once, also when several entries share
\* a file name.
C28_OneOutputFilePerEntry ==
    (sp_pc = "returned" /\ AllNamed)
    => /\ Cardinality(DOMAIN output_dir) = Len(manifest)
       /\ \A name \in DOMAIN output_dir : Len(output_dir[name]) = 1
       /\ \A i \in 1..Len(manifest) : Written(manifest[i]) = 1

C28_Witness ==
    /\ sp_pc = "returned"
    /\ Len(manifest) = 2
    /\ manifest[1].file_name = <<"a", " ", "b">>
    /\ manifest[2].file_name = <<"b">>
    /\ DOMAIN output_dir = {<<"a", "_", "b">>, <<"b">>}
    /\ output_dir[<<"a", "_", "b">>] = <<manifest[1]>>
    /\ output_dir[<<"b">>] = <<manifest[2]>>

(***************************************************************************)
(* Claims about the workers and the queue of ThreadSafeProgressTracker     *)
(***************************************************************************)
\* The worker threads that still run _update_worker
LiveWorkers == { t \in 1..Len(threads) : threads[t] # "dead" }

\* C29: whatever sequence of start() and stop() calls is made on a
\* tracker, at most one worker thread consumes the update queue at any
\* time.
C29_AtMostOneWorker == Cardinality(LiveWorkers) <= 1

C29_Witness ==
    /\ Len(threads) = 2
    /\ threads[1] = "dead"
    /\ threads[2] = "get"
    /\ ~stop_event

\* An update leaves the queue in this step
Consumed == Len(update_queue') < Len(update_queue)

\* What the record of a file shows once update u was applied to it
Reflects(record, u) ==
    CASE u.type = "progress" -> record.transferred_bytes = u.transferred_bytes
      [] u.type = "started" -> record.status = "IN_PROGRESS"
      [] u.type = "completed" ->
           record.status = (IF u.success THEN "SUCCESS" ELSE "FAILED")

StrategyDelay(cfg, n) ==
    CASE cfg.strategy = "immediate" -> 0
      [] cfg.strategy = "linear" -> initial_delay * n
      [] cfg.strategy = "exponential" -> initial_delay * Pow(backoff_base, n - 1)
      [] cfg.strategy = "fibonacci" -> fibonacci_delay(n)

\* C31: execute does not sleep before the first attempt, and before each
\* later attempt n it sleeps the strategy delay of attempt number n:
\* initial_delay * n for the linear strategy, initial_delay *
\* backoff_base^(n-1) for the exponential one (no jitter, default
\* multiplier, the cap not reached).
C31_SleepsDelayOfTheAttempt ==
    (r_pc = "call" /\ ~config.jitter /\ config.strategy \in {"linear", "exponential"})
    => /\ attempt = 1 => delay = 0 /\ r_sleeps = <<>>
       /\ attempt >= 2 => /\ delay = StrategyDelay(config, attempt)
                          /\ r_sleeps[Len(r_sleeps)] = delay

C31_Witness ==
    /\ r_pc = "call"
    /\ attempt = 1
    /\ config.strategy = "linear"
    /\ ~config.jitter
    /\ delay = 0
    /\ r_sleeps = <<>>

\* What execute sleeps before attempt 3 with the linear strategy
C31_SleepsDelayOfThePreviousAttempt ==
    /\ r_pc = "call"
    /\ attempt = 3
    /\ config.strategy = "linear"
    /\ ~config.jitter
    /\ r_sleeps = <<initial_delay, 2 * initial_delay>>

(***************************************************************************)
(* Claims about the statuses and the counters of the progress tracker      *)
(***************************************************************************)
\* The files tracked before and after a step
TrackedThroughStep == DOMAIN file_stats \cap DOMAIN file_stats'

\* C32: the status of a file only moves forward, a FAILED file may go back
\* to IN_PROGRESS for a retry, and a file that is SUCCESS keeps that
\* status whatever update comes next.
C32_StatusMovesForward ==
    [][ \A u \in TrackedThroughStep :
          LET before == file_stats[u].status
              after == file_stats'[u].status
          IN  /\ before = "SUCCESS" => after = "SUCCESS"
              /\ before # "PENDING" => after # "PENDING" ]_vars

C32_Witness ==
    /\ "uuid1" \in DOMAIN file_stats
    /\ file_stats["uuid1"].status = "IN_PROGRESS"
    /\ stats.failed_files = 1
    /\ stats.total_files = 1
    /\ update_queue = <<>>

\* C35: each file is counted at most once across completed_files and
\* failed_files, also when the same file is completed repeatedly or fails
\* and then succeeds: completed_files + failed_files is at most
\* total_files.
C35_EachFileCountedOnce ==
    initialized => stats.completed_files + stats.failed_files <= stats.total_files

C35_Witness ==
    /\ initialized
    /\ stats.total_files = 2
    /\ stats.completed_files = 1
    /\ stats.failed_files = 1
    /\ file_stats["uuid1"].status = "SUCCESS"
    /\ file_stats["uuid2"].status = "FAILED"

\* The tracked files whose status is IN_PROGRESS
InProgressFiles == { u \in DOMAIN file_stats : file_stats[u].status = "IN_PROGRESS" }

\* C36: in_progress_files is the number of tracked files whose status is
\* IN_PROGRESS, and is never negative.
C36_InProgressCountsFiles ==
    /\ stats.in_progress_files = Cardinality(InProgressFiles)
    /\ stats.in_progress_files >= 0

C36_Witness ==
    /\ stats.total_files = 2
    /\ InProgressFiles = {"uuid1", "uuid2"}
    /\ stats.in_progress_files = 2

\* Every worker thread has left _update_worker
WorkersEnded == \A t \in 1..Len(threads) : threads[t] = "dead"

\* C34: every update enqueued before stop() has been applied once stop()
\* is over and the worker has ended: no update is left on the queue when
\* the final statistics are read.
C34_NoUpdateLostAtStop ==
    (ctx_pc \in {"finally", "exited"} /\ WorkersEnded) => update_queue = <<>>

C34_Witness ==
    /\ ctx_pc = "exited"
    /\ WorkersEnded
    /\ budget.updates = 0
    /\ update_queue = <<>>
    /\ stats.completed_files = 1

(***************************************************************************)
(* Claims about TokenBucket and AsyncTokenBucket                           *)
(***************************************************************************)
\* A caller is inside consume: past refill, before the return
InsideConsume(c) == callers[c].pc \in {"test", "subtract"}

\* C33: the synchronous TokenBucket enforces no mutual exclusion: while
\* one thread is inside consume, any other thread that calls consume
\* enters it as well.  (C33_Witness is the interleaving in which two
\* calls on a bucket holding a single token both succeed.)
C33_NoMutualExclusion ==
    \A c \in Callers : \A other \in Callers \ {c} :
        (bucket_kind = "sync" /\ InsideConsume(c) /\ callers[other].pc = "call")
        => ENABLED ConsumeRefill(other)

C33_Witness ==
    /\ bucket_kind = "sync"
    /\ capacity = 1
    /\ \A c \in Callers : /\ callers[c].mode = "consume"
                          /\ callers[c].want = 1
                          /\ callers[c].pc = "done"
                          /\ callers[c].granted
    /\ tokens = -1

\* C40: with a positive refill rate, wait_for_tokens(n) returns in the end
\* for every n >= 1: every caller gets to the end of its call.
C40_WaitForTokensReturns ==
    <>(\A c \in Callers : callers[c].pc = "done")

C40_Witness ==
    /\ callers["first"].mode = "wait"
    /\ callers["first"].want = capacity
    /\ callers["first"].slept
    /\ callers["first"].granted
    /\ callers["first"].pc = "done"

(***************************************************************************)
(* Claims about the retried request and the failed start of the async      *)
(* client                                                                  *)
(***************************************************************************)
\* The attempts of the running call that were sent to the server
Dispatched == { i \in 1..Len(q_attempts) : q_attempts[i].dispatched }

\* C37: a request retried after a >= 500 response is the original one
\* apart from the auth token: it carries the same caller-supplied headers
\* (Content-Type, Content-Length, Content-Range) and the same body.
C37_RetryRepeatsTheRequest ==
    \A i \in Dispatched : \A j \in Dispatched :
        /\ q_attempts[i].headers = q_attempts[j].headers
        /\ q_attempts[i].data = q_attempts[j].data

C37_Witness ==
    /\ Len(q_attempts) = 2
    /\ Dispatched = {1, 2}
    /\ q_attempts[1].status = 503
    /\ q_attempts[1].data = "chunk"
    /\ q_attempts[2].data = "chunk"
    /\ "X-Auth-Token" \in q_attempts[2].headers

\* C38: when start() has raised because the token validation failed, the
\* client is not started: a request made afterwards ends with the
\* not-started error and nothing is sent.
C38_FailedStartLeavesClientUnstarted ==
    \A i \in 1..Len(q_attempts) :
        (q_caller = "user" /\ q_attempts[i].entered = "start_failed")
        => /\ ~q_attempts[i].dispatched
           /\ q_pc = "done" /\ q_outcome = "RuntimeError"

C38_Witness ==
    /\ q_caller = "start"
    /\ q_pc = "done"
    /\ q_outcome = "GDCAuthenticationError"
    /\ lifecycle = "start_failed"
    /\ session # None

\* What the retried upload_file_chunk request carries: the token and the
\* body, none of the caller's headers
C37_RetryWithoutCallerHeaders ==
    /\ Dispatched = {1, 2}
    /\ q_attempts[1].headers = {"Content-Type", "Content-Length", "Content-Range",
                                "X-Auth-Token"}
    /\ q_attempts[2].headers = {"X-Auth-Token"}
    /\ q_attempts[2].data = "chunk"

(***************************************************************************)
(* Claims about the validation cache of CachedTokenProvider                *)
(***************************************************************************)
\* C39: get_token of a provider with a validation client never returns a
\* token while the latest validation result says the token is invalid: a
\* call after a failed one validates successfully before it returns a
\* token, or fails again.
C39_NoTokenAfterFailedValidation ==
    (validation_client /\ a_call.result \notin {"none", "GDCAuthenticationError"})
    => validation_result # "invalid"

\* A get_token call has failed because the token is invalid and the base
\* provider had nothing to refresh it with
C39_Witness ==
    /\ validation_client
    /\ a_call.first = "invalid"
    /\ a_call.refresh = None
    /\ a_call.result = "GDCAuthenticationError"
    /\ validation_result = "invalid"
    /\ last_validation = now

\* The call after the failed one, inside the validation interval: the
\* cached token is returned without a validation
C39_TokenReturnedUnvalidated ==
    /\ validation_client
    /\ validation_result = "invalid"
    /\ ~should_validate
    /\ a_call.validations = 0
    /\ a_call.result = cached_token
    /\ cached_token # None

====
